---- MODULE Spec2Model ----
(***************************************************************************)
(* Matrix-NX RS232 monitor and SCPI terminal.                              *)
(*                                                                         *)
(* Spec       the compact monitor: SerialWorker.run with its frame reader  *)
(*            and manual-response reader, the GUI calls that reach the     *)
(*            worker (connect, disconnect, terminal send) and the device   *)
(*            on the other side of the serial line.                        *)
(* SpecFrame  SerialWorker._read_frame_data_plus_ok as a function of the   *)
(*            lines the device sends.                                      *)
(* SpecScpi   the SCPI terminal: GUI send, background reader and           *)
(*            temperature monitor sharing one port and one lock.           *)
(* SpecPoll   the monitor polling only, no terminal commands.              *)
(* SpecStream a read of the worker against a device that keeps sending.    *)
(* SpecStats  the deviation statistics: on_data and reset_maxima.          *)
(* SpecManual the monitor with blank terminal texts.                       *)
(* SpecSession connect and disconnect with the Data signals queued for     *)
(*            the GUI thread.                                              *)
(*                                                                         *)
(* Time is counted in ticks of 50 ms.  Computation takes no time; time     *)
(* passes only inside blocking calls (readline, sleep).                    *)
(***************************************************************************)
EXTENDS Integers, Sequences, FiniteSets, TLC

\* ------------------------------------------------------------ constants
\* READ_TIMEOUT_S = 2.0 s
READ_TIMEOUT == 40
\* SERIAL_POLL_TIMEOUT_S = 0.15 s: the timeout of one readline()
SERIAL_POLL_TIMEOUT == 3
\* time.sleep(min(0.05, ...)): the longest sleep increment
SLEEP_MAX == 1
\* idle_deadline = time.monotonic() + 0.35
IDLE_TIMEOUT == 7
\* expected_fields of All?, SERVice:XALL? TEMPeratures, SERVice:XALL? OTHers
FIELDS_ALL == 14
FIELDS_TEMPS == 10
FIELDS_OTHERS == 7

\* ------------------------------------------------------------ bounds
MaxTime == 5
MaxWire == 2
MaxManual == 2
MaxSessions == 1
MaxLen == 3

\* poll intervals the model offers, in ticks (sb_interval, 10..600000 ms)
Intervals == {2, 3}
Modes == {"normal", "rd"}

Max(a, b) == IF a >= b THEN a ELSE b
Min(a, b) == IF a <= b THEN a ELSE b

\* ------------------------------------------------------------ lines
\* A received line after decode().strip(): up is what the classification
\* sees of s.upper() ("OK", a text starting with "ERR", any other text, or
\* the empty string), n is len(s.split(",")), v tells contents apart.
Line(up, n, v) == [up |-> up, n |-> n, v |-> v]
NoLine == Line("NONE", 0, 0)
OKL == Line("OK", 1, 0)
OKlower == Line("OK", 1, 1)
ERRL == Line("ERR", 1, 0)
BlankL == Line("", 1, 0)
Dat(n, v) == Line("DAT", n, v)

IsOK(l) == l.up = "OK"
is_err_line(l) == l.up = "ERR"
IsTerminator(l) == IsOK(l) \/ is_err_line(l)
IsBlank(l) == l.up = ""

\* ------------------------------------------------------------ commands
Cmd(c, id) == [c |-> c, id |-> id]
NoCmd == Cmd("NONE", 0)
CMD_ALL == Cmd("ALL", 0)
CMD_PASS == Cmd("PASS", 0)
CMD_TEMPS == Cmd("TEMPS", 0)
CMD_OTHERS == Cmd("OTHERS", 0)
PollCmds == {CMD_ALL, CMD_TEMPS, CMD_OTHERS}

\* ------------------------------------------------------------ events
Ev(k) == [k |-> k, n |-> 0, ok |-> FALSE]
DataEv(n, ok) == [k |-> "Data", n |-> n, ok |-> ok]
Kinds(evs) == {evs[i].k : i \in 1..Len(evs)}

VARIABLES
    pc,            \* where the worker thread is ("idle": not running)
    mode,          \* self._mode
    interval,      \* interval_s, in ticks
    stop,          \* self._stop
    ser,           \* self._ser: "closed" (None) or "open"
    manual_q,      \* self._manual_q
    q_sess,        \* for each entry of manual_q, the run that was active when
                   \* it was put
    now,           \* time.monotonic()
    next_cycle,    \* next_cycle
    deadline,      \* deadline of the read in progress
    rf,            \* locals of _read_frame_data_plus_ok
    rctx,          \* the caller of the frame read in progress
    temps,         \* temps, ok_t of the R+D cycle in progress
    lines,         \* lines of _read_manual_response
    idle_deadline, \* idle_deadline of _read_manual_response
    rx,            \* lines the device has sent and the port has not read yet
    rx_old,        \* how many lines at the head of rx answer a command
                   \* written before the last one
    emitted,       \* the signals emitted by the last step, in order
    wr,            \* the command written to the port by the last step
    errorCount,    \* error signals emitted in this session
    ioFailed,      \* where a transport call raised in this session
    stopAsked,     \* stop() was called since this run() started
    nextId,        \* id of the next terminal command
    sessions,      \* runs started so far
    poll_start,    \* time the last poll cycle started, -1: none yet
    slow,          \* the last poll cycle cost at least one interval
    man_since,     \* a manual command was served since the loop started
    budget,        \* the model's bounds: clock, runs, terminal commands
    script,        \* SpecFrame: the lines given to the frame read
    res,           \* SpecFrame: what the frame read returned
    \* --- deviation statistics (MainWindow.stats)
    stats,         \* self.stats: channel -> TempStats
    mono,          \* time.monotonic() as update_temp_table_display reads it
    nupd,          \* calls of on_data so far
    sop,           \* what the last step did to the statistics
    gq,            \* Data signals queued for the GUI thread, not yet delivered
    \* --- terminal history (HistoryLineEdit)
    history,       \* self._history
    idx,           \* self._idx
    le_text,       \* the text of the line edit, as far as keyPressEvent sets it
    hop,           \* the last call on the line edit and its argument
    \* --- SCPI terminal (scpi_terminal_gui.py)
    port,              \* self.ser: "closed" or "open"
    serial_lock,       \* self.serial_lock: the thread holding it, or Nobody
    stop_reader,       \* self.stop_reader
    pause_reader,      \* self.pause_reader
    monitor_running,   \* self.monitor_running
    monitor_stop_event,\* self.monitor_stop_event
    pending_stop,      \* root.after(0, self._stop_temp_monitor, ...) queued
    tpc,               \* where each thread of the terminal is
    srx,               \* replies the device has sent, not read yet
    open_tx,           \* commands written whose reply is still in srx
    op,                \* the port operation of the last step
    ncmd,              \* commands written so far
    nmon               \* monitor threads started so far

cvars == <<pc, mode, interval, stop, ser, manual_q, q_sess, now, next_cycle, deadline,
           rf, rctx, temps, lines, idle_deadline, rx, rx_old, emitted,
           wr, errorCount, ioFailed, stopAsked, nextId, sessions, poll_start,
           slow, man_since, budget, script, res>>

tvars == <<stats, mono, nupd, sop, gq>>

hvars == <<history, idx, le_text, hop>>

wvars == <<cvars, tvars, hvars>>

svars == <<port, serial_lock, stop_reader, pause_reader, monitor_running,
           monitor_stop_event, pending_stop, tpc, srx, open_tx, op, ncmd,
           nmon>>

vars == <<wvars, svars>>

RfIdle == [expected |-> 0, data_parts |-> NoLine, ok_seen |-> FALSE,
           term |-> NoLine]
RfStart(e) == [RfIdle EXCEPT !.expected = e]
NoTemps == [data |-> NoLine, ok |-> FALSE]
NoRes == [data |-> NoLine, ok |-> FALSE, term |-> NoLine]

ReadingPcs == {"rf", "man_first", "man_more"}

\* ------------------------------------------------------------ device
PollScripts(e) ==
    { <<>>, <<Dat(e, 1), OKL>>, <<Dat(e, 1)>>, <<ERRL>>, <<BlankL>>,
      <<OKL, Dat(e, 1)>> }
AckScripts == { <<>>, <<OKL>>, <<ERRL>> }
ManScripts ==
    { <<>>, <<OKL>>, <<Dat(1, 1), OKL>>, <<Dat(1, 1), Dat(1, 2)>>, <<ERRL>> }

Scripts(c) ==
    CASE c.c = "ALL" -> PollScripts(FIELDS_ALL)
      [] c.c = "TEMPS" -> PollScripts(FIELDS_TEMPS)
      [] c.c = "OTHERS" -> PollScripts(FIELDS_OTHERS)
      [] c.c = "PASS" -> AckScripts
      [] OTHER -> ManScripts

\* The device answers a command it received: the answer is under way.
Respond(c) ==
    \E s \in Scripts(c) :
        /\ Len(rx) + Len(s) <= MaxWire
        /\ rx' = rx \o s
        /\ rx_old' = Len(rx)

\* ------------------------------------------------------------ clock
Tick(d) == now + d <= budget.time /\ now' = now + d

\* self._ser.readline() with timeout SERIAL_POLL_TIMEOUT: the next line, as
\* soon as it has arrived, or nothing when the timeout passes first.  got is
\* the line (NoLine: timed out).
Readline(got) ==
    \/ /\ rx # <<>>
       /\ got = Head(rx)
       /\ rx' = Tail(rx)
       /\ rx_old' = Max(rx_old - 1, 0)
       /\ \E d \in 0..(SERIAL_POLL_TIMEOUT - 1) : Tick(d)
    \/ /\ got = NoLine
       /\ Tick(SERIAL_POLL_TIMEOUT)
       /\ UNCHANGED <<rx, rx_old>>

ReadValues == {NoLine} \cup {rx[i] : i \in 1..Len(rx)}

G_cfg == <<mode, interval, budget, script, sessions, svars, tvars, hvars>>
G_frame == <<rf, rctx, deadline, temps, res>>
G_man == <<lines, idle_deadline>>
G_port == <<rx, rx_old, now>>
G_sched == <<next_cycle, poll_start, slow, man_since>>
G_err == <<errorCount, ioFailed>>
G_gui == <<stop, stopAsked, manual_q, q_sess, nextId>>

\* ------------------------------------------------------------ frame reader
\* One pass of the loop body of _read_frame_data_plus_ok over a non-empty
\* line: the locals afterwards and whether the function returns.
FrameStepNoReturn(st, l) ==
    IF IsTerminator(l)
    THEN [st |-> [st EXCEPT !.term = l, !.ok_seen = IsOK(l)], ret |-> FALSE]
    ELSE IF st.expected > 0 /\ l.n = st.expected
         THEN [st |-> [st EXCEPT !.data_parts = l], ret |-> FALSE]
         ELSE [st |-> st, ret |-> FALSE]

\* the loop body taking any line that is no terminator as the frame
FrameAnyLineNoReturn(st, l) ==
    IF IsTerminator(l)
    THEN [st |-> [st EXCEPT !.term = l, !.ok_seen = IsOK(l)],
          ret |-> (st.data_parts # NoLine \/ st.expected = 0)]
    ELSE [st |-> [st EXCEPT !.data_parts = l], ret |-> FALSE]

FrameStep(st, l) ==
    IF IsTerminator(l)
    THEN [st |-> [st EXCEPT !.term = l, !.ok_seen = IsOK(l)],
          ret |-> (st.data_parts # NoLine \/ st.expected = 0)]
    ELSE IF st.expected > 0 /\ l.n = st.expected
         THEN [st |-> [st EXCEPT !.data_parts = l], ret |-> FALSE]
         ELSE [st |-> st, ret |-> FALSE]

\* next_cycle = max(next_cycle + interval_s, time.monotonic())
NextCycleReplay(nc, iv, t) == nc + iv
NextCycleFromCompletion(nc, iv, t) == t + iv
NextCycle(nc, iv, t) == Max(nc + iv, t)

\* where the loop goes after the except branch of a poll cycle: break
PollErrorContinue == "top"
\* the except branch leaving run() at once, past the end of the function
PollErrorReturns == "idle"
PollErrorNext == "exit"

WarnIf(b) == IF b THEN <<Ev("Warn")>> ELSE <<>>

\* except Exception in a poll cycle: error.emit(...); break
PollError ==
    /\ emitted' = <<Ev("Error")>>
    /\ errorCount' = errorCount + 1
    /\ ioFailed' = "poll"
    /\ pc' = PollErrorNext
    /\ wr' = NoCmd
    /\ rf' = RfIdle
    /\ rctx' = "none"
    /\ deadline' = 0
    /\ temps' = NoTemps
    /\ UNCHANGED <<res, G_cfg, G_man, G_sched, G_gui, ser>>

\* The poll cycle is over: line 589.
CycleDone ==
    /\ next_cycle' = NextCycle(next_cycle, interval, now')
    /\ slow' = (now' - poll_start >= interval)
    /\ pc' = "top"
    /\ UNCHANGED <<poll_start, man_since>>

\* The fields of one half of an R+D cycle: those of its data line, each
\* marked with the query it answers and its place in the line, or e
\* placeholders when no frame came (temps = [""] * 10, others = [""] * 7).
HalfFields(d, q, e) ==
    IF d = NoLine THEN [i \in 1..e |-> <<"", 0>>]
    ELSE [i \in 1..d.n |-> <<q, i>>]
\* combined = temps + others
CombinedSwapped(t, o) ==
    HalfFields(o, "OTHERS", FIELDS_OTHERS) \o HalfFields(t, "TEMPS", FIELDS_TEMPS)
Combined(t, o) ==
    HalfFields(t, "TEMPS", FIELDS_TEMPS) \o HalfFields(o, "OTHERS", FIELDS_OTHERS)

\* if parts is not None
HasFrameAcked(st) == st.data_parts # NoLine /\ st.ok_seen
HasFrame(st) == st.data_parts # NoLine

\* The frame read returns (st: its locals) to the caller rctx.
Complete(st) ==
    /\ rf' = IF rctx = "fn" THEN st ELSE RfIdle
    /\ deadline' = 0
    /\ rctx' = "none"
    /\ wr' = NoCmd
    /\ UNCHANGED <<G_cfg, G_man, G_gui, ser>>
    /\ CASE rctx = "hs" ->
              /\ emitted' = (IF st.term # NoLine THEN <<Ev("Term")>> ELSE <<>>)
                            \o WarnIf(~st.ok_seen)
              /\ pc' = "loop_init"
              /\ UNCHANGED <<temps, res, G_sched, G_err>>
         [] rctx = "all" ->
              /\ emitted' = IF HasFrame(st)
                            THEN WarnIf(~st.ok_seen)
                                 \o <<DataEv(st.data_parts.n, st.ok_seen)>>
                            ELSE <<>>
              /\ CycleDone
              /\ UNCHANGED <<temps, res, G_err>>
         [] rctx = "temps" ->
              /\ emitted' = WarnIf(~st.ok_seen)
              /\ temps' = [data |-> st.data_parts, ok |-> st.ok_seen]
              /\ pc' = "rd_send2"
              /\ UNCHANGED <<res, G_sched, G_err>>
         [] rctx = "others" ->
              /\ emitted' = WarnIf(~st.ok_seen)
                    \o (IF temps.data = NoLine /\ st.data_parts = NoLine
                        THEN <<>>
                        ELSE <<DataEv(Len(Combined(temps.data,
                                                   st.data_parts)),
                                      temps.ok /\ st.ok_seen)>>)
              /\ temps' = NoTemps
              /\ CycleDone
              /\ UNCHANGED <<res, G_err>>
         [] OTHER ->
              /\ emitted' = <<>>
              /\ res' = [data |-> st.data_parts, ok |-> st.ok_seen,
                         term |-> st.term]
              /\ pc' = "fn_done"
              /\ UNCHANGED <<temps, G_sched, G_err>>

\* The read raised: the except branch of the caller.
ReadRaised ==
    IF rctx = "hs"
    THEN /\ emitted' = <<Ev("Warn")>>
         /\ ioFailed' = "hs"
         /\ pc' = "loop_init"
         /\ wr' = NoCmd
         /\ rf' = RfIdle
         /\ rctx' = "none"
         /\ deadline' = 0
         /\ UNCHANGED <<temps, res, errorCount, G_cfg, G_man, G_sched, G_gui,
                        ser>>
    ELSE PollError

StayInFrame(st) ==
    /\ rf' = st
    /\ emitted' = <<>>
    /\ wr' = NoCmd
    /\ UNCHANGED <<pc, rctx, deadline, temps, res, G_cfg, G_man, G_sched,
                   G_err, G_gui, ser>>

\* while time.monotonic() < deadline and not self._stop
ReadCondNoDeadline == ~stop
ReadCond == now < deadline /\ ~stop

RfReturn ==
    /\ pc = "rf"
    /\ ~ReadCond
    /\ UNCHANGED G_port
    /\ Complete(rf)

RfRead ==
    /\ pc = "rf"
    /\ ReadCond
    /\ \E got \in ReadValues :
         /\ Readline(got)
         /\ IF got = NoLine
            THEN Complete(rf)
            ELSE IF IsBlank(got)
                 THEN StayInFrame(rf)
                 ELSE LET r == FrameStep(rf, got) IN
                      IF r.ret THEN Complete(r.st) ELSE StayInFrame(r.st)

RfFail ==
    /\ pc = "rf"
    /\ rctx \in {"hs", "all", "temps", "others"}
    /\ ReadCond
    /\ UNCHANGED G_port
    /\ ReadRaised

\* ------------------------------------------------------------ frame reader
\* of matrix_nx_rs232_guiXall.py
\* One pass of the loop body of _read_data_and_ok over a non-empty line.  The
\* function knows one terminator, OK; ok_seen stands for its local ok.
read_data_and_ok_step(st, l) ==
    IF IsOK(l)
    THEN [st |-> [st EXCEPT !.ok_seen = TRUE], ret |-> st.data_parts # NoLine]
    ELSE IF l.n = st.expected
         THEN [st |-> [st EXCEPT !.data_parts = l], ret |-> st.ok_seen]
         ELSE [st |-> st, ret |-> FALSE]

XReturn ==
    /\ pc = "rfx"
    /\ ~ReadCond
    /\ UNCHANGED G_port
    /\ Complete(rf)

XRead ==
    /\ pc = "rfx"
    /\ ReadCond
    /\ \E got \in ReadValues :
         /\ Readline(got)
         /\ IF got = NoLine
            THEN Complete(rf)
            ELSE IF IsBlank(got)
                 THEN StayInFrame(rf)
                 ELSE LET r == read_data_and_ok_step(rf, got) IN
                      IF r.ret THEN Complete(r.st) ELSE StayInFrame(r.st)

\* ------------------------------------------------------------ statistics
\* TempStats of one channel.  Readings are whole numbers; mean, dev, the bar
\* peaks and the latched extrema are kept in units of 1/Scale, where Scale is
\* a multiple of every window length, so that sum / len(window) is exact.
\* Floating-point rounding is not modelled.
StatN == 2
MaxUpdates == 4
\* hold_s = self.sb_hold.value(), in ticks of mono
HoldTicks == 1

RECURSIVE GcdS(_, _)
GcdS(a, b) == IF b = 0 THEN a ELSE GcdS(b, a % b)
RECURSIVE LcmUpTo(_)
LcmUpTo(n) ==
    IF n <= 1 THEN 1
    ELSE LET l == LcmUpTo(n - 1) IN (l * n) \div GcdS(l, n)
\* the window length of the worked example: 10, 12, 11, then 20
ExampleN == 3
Scale == LcmUpTo(Max(StatN, ExampleN))

\* the channels of the model: Reso is read in R+D mode only, SHG in both
StatKeys == {"Reso", "SHG"}
StatSteps == {1, 2}

\* init_tempstats(n): window = deque(maxlen = n), everything else 0
TempStatsOf(n) ==
    [window |-> <<>>, maxlen |-> n, sum_ |-> 0, mean |-> 0, dev |-> 0,
     bar_peak_pos |-> 0, bar_peak_neg |-> 0, t_bar_pos |-> 0, t_bar_neg |-> 0,
     latched_pos |-> 0, latched_neg |-> 0]
\* init_tempstats(50), with StatN in place of 50
init_tempstats == TempStatsOf(StatN)

NoStatOp == [kind |-> "none", keys |-> {}, m |-> "none"]

InitStats ==
    /\ stats = [k \in StatKeys |-> init_tempstats]
    /\ mono = 0
    /\ nupd = 0
    /\ sop = NoStatOp
    /\ gq = <<>>

\* if len(stats.window) == stats.window.maxlen: stats.sum_ -= stats.window[0]
EvictedKeep(st) == st.sum_
Evicted(st) ==
    IF Len(st.window) = st.maxlen THEN st.sum_ - st.window[1] ELSE st.sum_

\* deque(maxlen = n).append(value)
DequeAppendDropsNewest(w, value, n) ==
    IF Len(w) = n THEN Append(SubSeq(w, 1, n - 1), value) ELSE Append(w, value)
DequeAppend(w, value, n) ==
    IF Len(w) = n THEN Append(Tail(w), value) ELSE Append(w, value)

\* if stats.dev > stats.latched_pos: stats.latched_pos = stats.dev
LatchPosFollow(lp, dev) == Max(dev, 0)
LatchPosNever(lp, dev) == lp
LatchPos(lp, dev) == IF dev > lp THEN dev ELSE lp
\* if stats.dev < stats.latched_neg: stats.latched_neg = stats.dev
LatchNeg(ln, dev) == IF dev < ln THEN dev ELSE ln

\* if now_mono - stats.t_bar_pos > hold_s   (and the same for t_bar_neg)
HoldExpiredLate(now_mono, t_bar, hold_s) == now_mono - t_bar > hold_s + 1
HoldExpiredAlways(now_mono, t_bar, hold_s) == TRUE
HoldExpired(now_mono, t_bar, hold_s) == now_mono - t_bar > hold_s

\* stats.bar_peak_pos = max(stats.dev, 0.0)
DecayPosToDev(dev) == dev
DecayPos(dev) == Max(dev, 0)
\* stats.bar_peak_neg = min(stats.dev, 0.0)
DecayNeg(dev) == Min(dev, 0)

update_tempstats(st, value, hold_s, now_mono) ==
    LET w == DequeAppend(st.window, value, st.maxlen)
        s == Evicted(st) + value
        mean == (Scale * s) \div Max(1, Len(w))
        dev == Scale * value - mean
        newpos == dev > st.bar_peak_pos
        newneg == dev < st.bar_peak_neg
        bp == IF newpos THEN dev ELSE st.bar_peak_pos
        tp == IF newpos THEN now_mono ELSE st.t_bar_pos
        bn == IF newneg THEN dev ELSE st.bar_peak_neg
        tn == IF newneg THEN now_mono ELSE st.t_bar_neg
        oldpos == HoldExpired(now_mono, tp, hold_s)
        oldneg == HoldExpired(now_mono, tn, hold_s)
    IN  [window |-> w, maxlen |-> st.maxlen,
         sum_ |-> s, mean |-> mean, dev |-> dev,
         bar_peak_pos |-> IF oldpos THEN DecayPos(dev) ELSE bp,
         t_bar_pos |-> IF oldpos THEN now_mono ELSE tp,
         bar_peak_neg |-> IF oldneg THEN DecayNeg(dev) ELSE bn,
         t_bar_neg |-> IF oldneg THEN now_mono ELSE tn,
         latched_pos |-> LatchPos(st.latched_pos, dev),
         latched_neg |-> LatchNeg(st.latched_neg, dev)]

\* TEMP_IDX_NORMAL, TEMP_IDX_RD: channel -> index of its field (from 0)
TEMP_IDX_NORMAL == [k \in {"SHG"} |-> 5]
TEMP_IDX_RD == [k \in StatKeys |-> IF k = "Reso" THEN 0 ELSE 4]
TempIdx(m) == IF m = "normal" THEN TEMP_IDX_NORMAL ELSE TEMP_IDX_RD

\* The texts a field of a response holds: two numbers and a text that is
\* no number.  Placeholder is the "" the worker puts in for a half of an
\* R+D cycle that was not received.
FieldTexts == {"0", "3", "x"}
Placeholder == ""

\* t = float(values[idx]): IsFloat tells whether float() returns, Float
\* what it returns
IsFloatOrEmpty(s) == s \in {"0", "3", ""}
IsFloat(s) == s \in {"0", "3"}
Float(s) == IF s = "3" THEN 3 ELSE 0

\* values[k], k counted from 0
Field(values, k) == values[k + 1]

\* mode == "normal" and values and len(values) == 14
\* mode == "rd" and values and len(values) == 17
LenMatches(m, values) ==
    \/ m = "normal" /\ Len(values) = FIELDS_ALL
    \/ m = "rd" /\ Len(values) = FIELDS_TEMPS + FIELDS_OTHERS

\* the channels update_temp_table_display calls update_tempstats for
UpdatedKeysAll(m, values) ==
    IF LenMatches(m, values) THEN DOMAIN TempIdx(m) ELSE {}
UpdatedKeys(m, values) ==
    IF LenMatches(m, values)
    THEN {k \in DOMAIN TempIdx(m) : IsFloat(Field(values, TempIdx(m)[k]))}
    ELSE {}

\* MainWindow.update_temp_table_display(mode, values), lines 974-988: the
\* statistics afterwards
update_temp_table_display(st, m, values, hold_s, t) ==
    [k \in StatKeys |->
        IF k \in UpdatedKeys(m, values)
        THEN update_tempstats(st[k], Float(Field(values, TempIdx(m)[k])),
                              hold_s, t)
        ELSE st[k]]

\* the payloads of the Data signal: All? gives 14 fields; an R+D cycle gives
\* the 10 fields of TEMPeratures, or 10 placeholders, followed by the 7
\* fields of OTHers, or 7 placeholders, never placeholders only
Vectors(n, J) ==
    {[i \in 1..n |-> IF i = j THEN a ELSE b] :
        j \in J, a \in FieldTexts, b \in FieldTexts}
Blanks(n) == [i \in 1..n |-> Placeholder]
OthersHalves == {[i \in 1..FIELDS_OTHERS |-> "0"], Blanks(FIELDS_OTHERS)}
PayloadsOver(JA, JT) ==
    {[mode |-> "normal", values |-> v] : v \in Vectors(FIELDS_ALL, JA)}
    \cup {[mode |-> "rd", values |-> t \o o] :
            t \in Vectors(FIELDS_TEMPS, JT), o \in OthersHalves}
    \cup {[mode |-> "rd",
           values |-> Blanks(FIELDS_TEMPS) \o [i \in 1..FIELDS_OTHERS |-> "0"]]}
\* the payloads on_data is given: the field that differs from the others is
\* the first, the last, the one of SHG or one next to it
Payloads == PayloadsOver({1, 5, 6, 7, FIELDS_ALL}, {1, 4, 5, 6, FIELDS_TEMPS})
\* the payloads with the differing field anywhere
AllPayloads == PayloadsOver(1..FIELDS_ALL, 1..FIELDS_TEMPS)

\* MainWindow.on_data(payload) -> update_temp_table_display(mode, values)
on_data(p, dt) ==
    /\ nupd < MaxUpdates
    /\ nupd' = nupd + 1
    /\ mono' = mono + dt
    /\ stats' = update_temp_table_display(stats, p.mode, p.values,
                                          HoldTicks, mono')
    /\ sop' = [kind |-> "update", keys |-> UpdatedKeys(p.mode, p.values),
               m |-> p.mode]
    /\ UNCHANGED <<cvars, svars, hvars>>

\* self.stats[key].latched_pos = 0.0; self.stats[key].latched_neg = 0.0
reset_latched_and_bars(st) ==
    [st EXCEPT !.latched_pos = 0, !.latched_neg = 0,
               !.bar_peak_pos = 0, !.bar_peak_neg = 0]
reset_latched(st) == [st EXCEPT !.latched_pos = 0, !.latched_neg = 0]

\* MainWindow.reset_maxima; its update_temp_table_display(values = None)
\* updates no statistics
ResetMaxima ==
    /\ stats' = [k \in StatKeys |-> reset_latched(stats[k])]
    /\ sop' = [kind |-> "reset", keys |-> StatKeys, m |-> "none"]
    /\ UNCHANGED <<mono, nupd, gq, cvars, svars, hvars>>

\* MainWindow.reset_stats_all
reset_stats_all ==
    /\ stats' = [k \in StatKeys |-> init_tempstats]
    /\ sop' = [kind |-> "init", keys |-> StatKeys, m |-> "none"]
    /\ UNCHANGED <<mono, nupd, gq>>

\* on_data called with a payload, no signal queue in between
StatOnData(p, dt) == on_data(p, dt) /\ UNCHANGED gq

NextStats ==
    \/ \E p \in Payloads, dt \in StatSteps : StatOnData(p, dt)
    \/ ResetMaxima

\* ------------------------------------------------------------ GUI
\* MainWindow._start_worker -> reset_stats_all(); configure(port, interval,
\* mode); start()
Start(m, iv) ==
    /\ pc = "idle"
    /\ sessions < budget.sessions
    /\ reset_stats_all
    /\ mode' = m
    /\ interval' = iv
    /\ sessions' = sessions + 1
    /\ pc' = "open"
    /\ errorCount' = 0
    /\ ioFailed' = "none"
    /\ stopAsked' = FALSE
    /\ emitted' = <<>>
    /\ wr' = NoCmd
    /\ UNCHANGED <<stop, manual_q, q_sess, nextId, ser, budget, script, svars,
                   hvars, G_frame,
                   G_man, G_port, G_sched>>

\* MainWindow.disconnect_port -> worker.stop()
Stop ==
    /\ pc # "idle"
    /\ stop' = TRUE
    /\ stopAsked' = TRUE
    /\ emitted' = <<>>
    /\ wr' = NoCmd
    /\ UNCHANGED <<pc, manual_q, q_sess, nextId, ser, G_cfg, G_frame, G_man,
                   G_port,
                   G_sched, G_err>>

\* MainWindow.send_terminal_cmd with the worker writing the command itself
EnqueueDirect ==
    /\ pc # "idle"
    /\ nextId <= budget.manual
    /\ nextId' = nextId + 1
    /\ emitted' = <<>>
    /\ wr' = Cmd("MAN", nextId)
    /\ UNCHANGED <<pc, stop, stopAsked, manual_q, q_sess, ser, G_cfg, G_frame,
                   G_man,
                   G_port, G_sched, G_err>>

\* The text of a terminal command: a positive number stands for a command
\* (its id), EmptyText for "" and SpaceText for a text of white space only.
EmptyText == 0
SpaceText == -1
BlankTexts == {EmptyText, SpaceText}
\* cmd.strip()
strip(c) == IF c = SpaceText THEN EmptyText ELSE c
\* if cmd:
Truthy(c) == c # EmptyText

\* MainWindow.send_terminal_cmd while the worker runs: the queue afterwards.
\* cmd = self.le_cmd.text().strip(); if not cmd: return; ...
\* self.worker.enqueue_manual(cmd)
TerminalQueue(t, q) ==
    LET cmd == strip(t) IN IF Truthy(cmd) THEN Append(q, cmd) ELSE q

\* the runs of the entries of the queue after a put made during run n
PutIn(q, q2, qs, n) == IF Len(q2) > Len(q) THEN Append(qs, n) ELSE qs

\* MainWindow.send_terminal_cmd -> worker.enqueue_manual(cmd)
Enqueue ==
    /\ pc # "idle"
    /\ nextId <= budget.manual
    /\ manual_q' = TerminalQueue(nextId, manual_q)
    /\ q_sess' = PutIn(manual_q, manual_q', q_sess, sessions)
    /\ nextId' = nextId + 1
    /\ emitted' = <<>>
    /\ wr' = NoCmd
    /\ UNCHANGED <<pc, stop, stopAsked, ser, G_cfg, G_frame, G_man, G_port,
                   G_sched, G_err>>

\* MainWindow.send_terminal_cmd with a blank text: if not cmd: return
RejectBlank(t) ==
    /\ t \in BlankTexts
    /\ manual_q' = TerminalQueue(t, manual_q)
    /\ q_sess' = PutIn(manual_q, manual_q', q_sess, sessions)
    /\ emitted' = <<>>
    /\ wr' = NoCmd
    /\ UNCHANGED <<pc, stop, stopAsked, nextId, ser, G_cfg, G_frame, G_man,
                   G_port, G_sched, G_err>>

\* SerialWorker.enqueue_manual(cmd) called with a blank text, which
\* send_terminal_cmd never does
EnqueueRaw(t) ==
    /\ t \in BlankTexts
    /\ pc # "idle"
    /\ nextId <= budget.manual
    /\ manual_q' = Append(manual_q, t)
    /\ q_sess' = PutIn(manual_q, manual_q', q_sess, sessions)
    /\ nextId' = nextId + 1
    /\ emitted' = <<>>
    /\ wr' = NoCmd
    /\ UNCHANGED <<pc, stop, stopAsked, ser, G_cfg, G_frame, G_man, G_port,
                   G_sched, G_err>>

\* ------------------------------------------------------------ history
\* HistoryLineEdit.  The texts are those of the terminal: a positive number
\* for a command, EmptyText, SpaceText.  MaxItems stands for max_items = 50.
MaxItems == 3
MaxSends == 5
HistTexts == {1, 2, 3} \cup BlankTexts
NoHistOp == [kind |-> "none", arg |-> EmptyText]

InitHistory ==
    /\ history = <<>>
    /\ idx = -1
    /\ le_text = EmptyText
    /\ hop = NoHistOp

\* self._history = self._history[-max_items:]
KeepAll(h, n) == h
LastItems(h, n) == IF Len(h) > n THEN SubSeq(h, Len(h) - n + 1, Len(h)) ELSE h

\* HistoryLineEdit.add_history(cmd)
add_history(cmd0) ==
    LET cmd == strip(cmd0) IN
    /\ hop' = [kind |-> "add", arg |-> cmd0]
    /\ IF ~Truthy(cmd)
       THEN UNCHANGED <<history, idx>>
       ELSE IF history # <<>> /\ history[Len(history)] = cmd
            THEN idx' = -1 /\ UNCHANGED history
            ELSE /\ history' = LastItems(Append(history, cmd), MaxItems)
                 /\ idx' = -1

\* what send_terminal_cmd leaves alone
G_term == <<pc, stop, stopAsked, ser, emitted, wr, mode, interval, budget,
            script, sessions, svars, tvars, G_frame, G_man, G_port, G_sched,
            G_err>>

\* MainWindow.send_terminal_cmd with the text t in the line edit:
\* add_history(cmd); clear(); enqueue_manual(cmd)
send_terminal_cmd(t) ==
    LET cmd == strip(t) IN
    /\ Truthy(cmd)
    /\ pc # "idle"
    /\ le_text = t
    /\ nextId <= MaxSends
    /\ add_history(cmd)
    /\ le_text' = EmptyText
    /\ manual_q' = Append(manual_q, cmd)
    /\ q_sess' = PutIn(manual_q, manual_q', q_sess, sessions)
    /\ nextId' = nextId + 1
    /\ UNCHANGED G_term

\* MainWindow.send_terminal_cmd returning early: the text is blank, or the
\* worker is not running ("<< Nicht verbunden")
SendRefused ==
    /\ ~Truthy(strip(le_text)) \/ pc = "idle"
    /\ hop' = [kind |-> "refused", arg |-> le_text]
    /\ UNCHANGED <<history, idx, le_text, manual_q, q_sess, nextId, G_term>>

\* the user edits the line: QLineEdit's text becomes t
TypeText(t) ==
    /\ le_text # t
    /\ le_text' = t
    /\ hop' = [kind |-> "type", arg |-> t]
    /\ UNCHANGED <<history, idx, manual_q, q_sess, nextId, G_term>>

\* keyPressEvent with Qt.Key_Up; self._history[i] is history[i + 1]
KeyUp ==
    /\ hop' = [kind |-> "up", arg |-> EmptyText]
    /\ IF history # <<>>
       THEN /\ idx' = IF idx = -1 THEN Len(history) - 1 ELSE Max(0, idx - 1)
            /\ le_text' = history[idx' + 1]
       ELSE UNCHANGED <<idx, le_text>>
    /\ UNCHANGED <<history, manual_q, q_sess, nextId, G_term>>

\* keyPressEvent with Qt.Key_Down
KeyDown ==
    /\ hop' = [kind |-> "down", arg |-> EmptyText]
    /\ IF history # <<>> /\ idx # -1
       THEN IF idx + 1 >= Len(history)
            THEN idx' = -1 /\ le_text' = EmptyText
            ELSE idx' = idx + 1 /\ le_text' = history[idx' + 1]
       ELSE UNCHANGED <<idx, le_text>>
    /\ UNCHANGED <<history, manual_q, q_sess, nextId, G_term>>

NextHistory ==
    \/ \E m \in Modes, iv \in Intervals : Start(m, iv)
    \/ \E t \in HistTexts : TypeText(t)
    \/ \E t \in HistTexts : send_terminal_cmd(t)
    \/ SendRefused
    \/ KeyUp
    \/ KeyDown

\* ------------------------------------------------------------ worker
\* where run() goes when serial.Serial(...) raised: return
OpenFailRetry == "open"
OpenFailNext == "idle"

\* self._ser after _close_serial(): if self._ser: close(); self._ser = None
close_serial_keeps(s) == s
close_serial(s) == IF s # "closed" THEN "closed" ELSE s

\* serial.Serial(...), reset_input_buffer(), connected.emit
Open ==
    /\ pc = "open"
    /\ wr' = NoCmd
    /\ UNCHANGED <<now, G_cfg, G_frame, G_man, G_sched, G_gui, ioFailed>>
    /\ \/ /\ ser' = "open"
          /\ rx' = <<>>
          /\ rx_old' = 0
          /\ emitted' = <<Ev("Connected")>>
          /\ pc' = IF mode = "rd" THEN "hs_send" ELSE "loop_init"
          /\ UNCHANGED errorCount
       \/ /\ ser' = close_serial(ser)
          /\ emitted' = <<Ev("Error")>>
          /\ errorCount' = errorCount + 1
          /\ pc' = OpenFailNext
          /\ UNCHANGED <<rx, rx_old>>

\* _send_cmd(cmd) followed by the start of _read_frame_data_plus_ok
SendAndRead(c, e, ctx) ==
    /\ wr' = c
    /\ Respond(c)
    /\ rf' = RfStart(e)
    /\ rctx' = ctx
    /\ deadline' = now + READ_TIMEOUT
    /\ pc' = "rf"
    /\ UNCHANGED now

\* R+D handshake: the password command
HsSend ==
    /\ pc = "hs_send"
    /\ UNCHANGED <<temps, res, errorCount, ser, G_cfg, G_man, G_sched, G_gui>>
    /\ \/ /\ SendAndRead(CMD_PASS, 0, "hs")
          /\ emitted' = <<Ev("Term")>>
          /\ UNCHANGED ioFailed
       \/ /\ emitted' = <<Ev("Warn")>>
          /\ ioFailed' = "hs"
          /\ pc' = "loop_init"
          /\ wr' = NoCmd
          /\ UNCHANGED <<rf, rctx, deadline, G_port>>

\* interval_s = ...; next_cycle = time.monotonic(); self._stop = False
LoopInit ==
    /\ pc = "loop_init"
    /\ next_cycle' = now
    /\ stop' = FALSE
    /\ poll_start' = -1
    /\ slow' = FALSE
    /\ man_since' = FALSE
    /\ pc' = "top"
    /\ emitted' = <<>>
    /\ wr' = NoCmd
    /\ UNCHANGED <<stopAsked, manual_q, q_sess, nextId, ser, G_cfg, G_frame,
                   G_man,
                   G_port, G_err>>

\* while not self._stop: ... (the loop ends)
LoopExit ==
    /\ pc = "top"
    /\ stop
    /\ pc' = "exit"
    /\ emitted' = <<>>
    /\ wr' = NoCmd
    /\ UNCHANGED <<ser, G_cfg, G_frame, G_man, G_port, G_sched, G_err, G_gui>>

\* self._manual_q.get_nowait()
DequeueLast(q) == [cmd |-> q[Len(q)], rest |-> SubSeq(q, 1, Len(q) - 1)]
Dequeue(q) == [cmd |-> Head(q), rest |-> Tail(q)]

\* the loop serves the terminal queue before it looks at the poll deadline
ManualFirst == manual_q # <<>>

\* if cmd: cmd = cmd.strip(); if cmd: (the command is sent)
IsCommandAny(c) == TRUE
IsCommand(c) == Truthy(c) /\ Truthy(strip(c))

\* the manual branch, up to the first readline of _read_manual_response
ServeManual ==
    /\ pc = "top"
    /\ ~stop
    /\ ManualFirst
    /\ IsCommand(Dequeue(manual_q).cmd)
    /\ manual_q' = Dequeue(manual_q).rest
    /\ q_sess' = Tail(q_sess)
    /\ emitted' = <<Ev("Term")>>
    /\ UNCHANGED <<stop, stopAsked, nextId, ser, idle_deadline, errorCount,
                   next_cycle, poll_start, slow, rf, rctx, temps, res, G_cfg>>
    /\ \/ /\ wr' = Cmd("MAN", strip(Dequeue(manual_q).cmd))
          /\ Respond(wr')
          /\ lines' = <<>>
          /\ deadline' = now + READ_TIMEOUT
          /\ man_since' = TRUE
          /\ pc' = "man_first"
          /\ UNCHANGED <<now, ioFailed>>
       \/ /\ wr' = NoCmd
          /\ ioFailed' = "manual"
          /\ UNCHANGED <<pc, lines, deadline, man_since, G_port>>

\* A blank entry is taken from the queue.  White space is truthy and empty
\* once stripped: continue.  "" is falsy: the iteration goes on to the poll
\* deadline as with no command ("poll").
TakeBlank ==
    /\ pc = "top"
    /\ ~stop
    /\ ManualFirst
    /\ ~IsCommand(Dequeue(manual_q).cmd)
    /\ manual_q' = Dequeue(manual_q).rest
    /\ q_sess' = Tail(q_sess)
    /\ pc' = IF Truthy(Dequeue(manual_q).cmd) THEN "top" ELSE "poll"
    /\ emitted' = <<>>
    /\ wr' = NoCmd
    /\ UNCHANGED <<stop, stopAsked, nextId, ser, G_cfg, G_frame, G_man,
                   G_port, G_sched, G_err>>

\* the iteration is at now = time.monotonic(); if now < next_cycle
AtPollCheck ==
    \/ pc = "top" /\ ~stop /\ ~ManualFirst
    \/ pc = "poll"

\* time.sleep(min(0.05, next_cycle - now))
Sleep ==
    /\ AtPollCheck
    /\ now < next_cycle
    /\ Tick(Min(SLEEP_MAX, next_cycle - now))
    /\ pc' = "top"
    /\ emitted' = <<>>
    /\ wr' = NoCmd
    /\ UNCHANGED <<rx, rx_old, ser, G_cfg, G_frame, G_man, G_sched,
                   G_err, G_gui>>

\* the poll branch: the first command of the cycle
PollStart ==
    /\ AtPollCheck
    /\ now >= next_cycle
    /\ \/ /\ IF mode = "normal"
             THEN SendAndRead(CMD_ALL, FIELDS_ALL, "all")
             ELSE SendAndRead(CMD_TEMPS, FIELDS_TEMPS, "temps")
          /\ emitted' = <<>>
          /\ poll_start' = now
          /\ UNCHANGED <<temps, res, next_cycle, slow, man_since, ser, G_cfg,
                         G_man, G_err, G_gui>>
       \/ /\ PollError
          /\ UNCHANGED G_port

\* R+D cycle: the second command
SendOthers ==
    /\ pc = "rd_send2"
    /\ \/ /\ SendAndRead(CMD_OTHERS, FIELDS_OTHERS, "others")
          /\ emitted' = <<>>
          /\ UNCHANGED <<temps, res, ser, G_cfg, G_man, G_sched, G_err, G_gui>>
       \/ /\ PollError
          /\ UNCHANGED G_port

\* next_cycle at the end of the manual branch (continue): the branch does
\* not assign it
ManualAdvances(nc, iv, t) == Max(nc + iv, t)
ManualKeeps(nc, iv, t) == nc

\* _read_manual_response returns ls; run() emits the lines
ManFinish(ls) ==
    /\ emitted' = IF ls = <<>> THEN <<Ev("Term")>>
                  ELSE [i \in 1..Len(ls) |-> Ev("Term")]
    /\ lines' = <<>>
    /\ idle_deadline' = 0
    /\ deadline' = 0
    /\ pc' = "top"
    /\ wr' = NoCmd
    /\ next_cycle' = ManualKeeps(next_cycle, interval, now')
    /\ UNCHANGED <<rf, rctx, temps, res, ser, poll_start, slow, man_since,
                   G_cfg, G_err, G_gui>>

\* except Exception in the manual branch: term_line.emit("<< Fehler"), and
\* the loop goes on
ManRaised ==
    /\ emitted' = <<Ev("Term")>>
    /\ ioFailed' = "manual"
    /\ lines' = <<>>
    /\ idle_deadline' = 0
    /\ deadline' = 0
    /\ pc' = "top"
    /\ wr' = NoCmd
    /\ UNCHANGED <<rf, rctx, temps, res, ser, errorCount, G_cfg, G_sched,
                   G_gui, G_port>>

ManStay(ls, idl, p) ==
    /\ lines' = ls
    /\ idle_deadline' = idl
    /\ pc' = p
    /\ emitted' = <<>>
    /\ wr' = NoCmd
    /\ UNCHANGED <<deadline, rf, rctx, temps, res, ser, G_cfg, G_sched, G_err,
                   G_gui>>

\* first = self._readline_nonempty(deadline) and what follows it
ManFirst ==
    /\ pc = "man_first"
    /\ \/ /\ ~ReadCond
          /\ UNCHANGED G_port
          /\ ManFinish(<<>>)
       \/ /\ ReadCond
          /\ \E got \in ReadValues :
               /\ Readline(got)
               /\ IF got = NoLine THEN ManFinish(<<>>)
                  ELSE IF IsBlank(got) THEN ManStay(lines, idle_deadline, pc)
                  ELSE IF IsTerminator(got) THEN ManFinish(<<got>>)
                  ELSE ManStay(<<got>>, now' + IDLE_TIMEOUT, "man_more")
       \/ /\ ReadCond
          /\ ManRaised

\* the while loop of _read_manual_response
ManMore ==
    /\ pc = "man_more"
    /\ \/ /\ ~ReadCond
          /\ UNCHANGED G_port
          /\ ManFinish(lines)
       \/ /\ ReadCond
          /\ \E got \in ReadValues :
               /\ Readline(got)
               /\ IF got # NoLine /\ ~IsBlank(got)
                  THEN IF IsTerminator(got)
                       THEN ManFinish(Append(lines, got))
                       ELSE ManStay(Append(lines, got), now' + IDLE_TIMEOUT, pc)
                  ELSE IF now' > idle_deadline
                       THEN ManFinish(lines)
                       ELSE ManStay(lines, idle_deadline, pc)
       \/ /\ ReadCond
          /\ ManRaised

\* self._close_serial(); self.disconnected.emit("Getrennt")
Exit ==
    /\ pc = "exit"
    /\ ser' = close_serial(ser)
    /\ rx' = <<>>
    /\ rx_old' = 0
    /\ emitted' = <<Ev("Disconnected")>>
    /\ pc' = "idle"
    /\ wr' = NoCmd
    /\ UNCHANGED <<now, G_cfg, G_frame, G_man, G_sched, G_err, G_gui>>

\* run() of a worker that was given no port name (configure was not called,
\* or with an empty name; _start_worker never does that):
\* if not self._port_name: error.emit(...); return
RunNoPort ==
    /\ pc = "idle"
    /\ sessions < budget.sessions
    /\ sessions' = sessions + 1
    /\ emitted' = <<Ev("Error")>>
    /\ errorCount' = 1
    /\ ioFailed' = "noport"
    /\ stopAsked' = FALSE
    /\ wr' = NoCmd
    /\ UNCHANGED <<pc, mode, interval, stop, manual_q, q_sess, nextId, ser,
                   budget, script, svars, tvars, hvars, G_frame, G_man,
                   G_port, G_sched>>

\* ------------------------------------------------------------ SCPI terminal
MaxCmds == 5
MaxMon == 2

T_GUI == <<"gui", 0>>
T_READER == <<"reader", 0>>
Mon(i) == <<"mon", i>>
Nobody == <<"nobody", 0>>
MonThreads == {Mon(i) : i \in 1..MaxMon}
Threads == {T_GUI, T_READER} \cup MonThreads

Op(by, kind) == [by |-> by, kind |-> kind]
NoOp == Op(Nobody, "none")
Tx(id, by, kind) == [id |-> id, by |-> by, kind |-> kind]

InitScpi ==
    /\ port = "closed"
    /\ serial_lock = Nobody
    /\ stop_reader = FALSE
    /\ pause_reader = FALSE
    /\ monitor_running = FALSE
    /\ monitor_stop_event = FALSE
    /\ pending_stop = FALSE
    /\ tpc = [t \in Threads |-> IF t = T_GUI THEN "idle" ELSE "none"]
    /\ srx = <<>>
    /\ open_tx = {}
    /\ op = NoOp
    /\ ncmd = 0
    /\ nmon = 0

\* The device may answer the command with number id: the reply is under way
\* and the command's transaction is open until the reply is read.
ScpiRespond(id, by, kind, buf, txs) ==
    \/ /\ srx' = Append(buf, id)
       /\ open_tx' = txs \cup {Tx(id, by, kind)}
    \/ /\ srx' = buf
       /\ open_tx' = txs

\* SCPITerminalApp._connect
ScpiConnect ==
    /\ tpc[T_GUI] = "idle"
    /\ port = "closed"
    /\ tpc[T_READER] = "none"
    /\ port' = "open"
    /\ stop_reader' = FALSE
    /\ tpc' = [tpc EXCEPT ![T_READER] = "loop"]
    /\ op' = NoOp
    /\ UNCHANGED <<serial_lock, pause_reader, monitor_running,
                   monitor_stop_event, pending_stop, srx, open_tx, ncmd, nmon,
                   wvars>>

\* SCPITerminalApp._stop_temp_monitor
StopMonitorEffect ==
    /\ monitor_stop_event' = TRUE
    /\ monitor_running' = FALSE

\* SCPITerminalApp._disconnect
ScpiDisconnect ==
    /\ tpc[T_GUI] = "idle"
    /\ port = "open"
    /\ IF monitor_running THEN StopMonitorEffect
       ELSE UNCHANGED <<monitor_running, monitor_stop_event>>
    /\ stop_reader' = TRUE
    /\ port' = "closed"
    /\ srx' = <<>>
    /\ open_tx' = {}
    /\ op' = NoOp
    /\ UNCHANGED <<serial_lock, pause_reader, pending_stop, tpc, ncmd, nmon,
                   wvars>>

\* SCPITerminalApp.send_command: with self.serial_lock: self.ser.write(...)
SendCommand ==
    /\ tpc[T_GUI] = "idle"
    /\ port = "open"
    /\ serial_lock = Nobody
    /\ ncmd < MaxCmds
    /\ ncmd' = ncmd + 1
    /\ op' = Op(T_GUI, "write")
    /\ ScpiRespond(ncmd + 1, T_GUI, "send", srx, open_tx)
    /\ UNCHANGED <<port, serial_lock, stop_reader, pause_reader,
                   monitor_running, monitor_stop_event, pending_stop, tpc,
                   nmon, wvars>>

\* SCPITerminalApp.toggle_temp_monitor
ToggleMonitor ==
    /\ tpc[T_GUI] = "idle"
    /\ op' = NoOp
    /\ IF monitor_running
       THEN /\ StopMonitorEffect
            /\ UNCHANGED tpc
       ELSE /\ port = "open"
            /\ nmon < MaxMon
            /\ tpc' = [tpc EXCEPT ![T_GUI] = "q1w"]
            /\ UNCHANGED <<monitor_running, monitor_stop_event>>
    /\ UNCHANGED <<port, serial_lock, stop_reader, pause_reader, pending_stop,
                   srx, open_tx, ncmd, nmon, wvars>>

\* the _stop_temp_monitor call a failed monitor loop left for the GUI thread
PendingStop ==
    /\ tpc[T_GUI] = "idle"
    /\ pending_stop
    /\ pending_stop' = FALSE
    /\ StopMonitorEffect
    /\ op' = NoOp
    /\ UNCHANGED <<port, serial_lock, stop_reader, pause_reader, tpc, srx,
                   open_tx, ncmd, nmon, wvars>>

\* _query_scpi up to the write: pause_reader.set(); with self.serial_lock:
\* reset_input_buffer(); write(payload); flush()
QueryBegin(t) ==
    /\ tpc[t] \in {"q1w", "q2w"}
    /\ port = "open"
    /\ serial_lock = Nobody
    /\ ncmd < MaxCmds
    /\ pause_reader' = TRUE
    /\ serial_lock' = t
    /\ ncmd' = ncmd + 1
    /\ op' = Op(t, "flushwrite")
    /\ ScpiRespond(ncmd + 1, t, "query", <<>>, {})
    /\ tpc' = [tpc EXCEPT ![t] = IF tpc[t] = "q1w" THEN "q1r" ELSE "q2r"]
    /\ UNCHANGED <<port, stop_reader, monitor_running, monitor_stop_event,
                   pending_stop, nmon, wvars>>

\* what the caller of _query_scpi does when the query returned a reply
AfterQuery(t) ==
    IF tpc[t] = "q1r"
    THEN /\ tpc' = [tpc EXCEPT ![t] = "q2w"]
         /\ UNCHANGED <<monitor_running, monitor_stop_event, nmon>>
    ELSE IF t = T_GUI
         THEN \* _start_temp_monitor: the monitor thread is started
              /\ monitor_stop_event' = FALSE
              /\ monitor_running' = TRUE
              /\ nmon' = nmon + 1
              /\ tpc' = [tpc EXCEPT ![T_GUI] = "idle",
                                    ![Mon(nmon + 1)] = "check"]
         ELSE /\ tpc' = [tpc EXCEPT ![t] = "sleep"]
              /\ UNCHANGED <<monitor_running, monitor_stop_event, nmon>>

\* the read loop of _query_scpi gets a line: return decoded
QueryRead(t) ==
    /\ tpc[t] \in {"q1r", "q2r"}
    /\ port = "open"
    /\ srx # <<>>
    /\ srx' = Tail(srx)
    /\ open_tx' = {x \in open_tx : x.id # Head(srx)}
    /\ op' = Op(t, "read")
    /\ serial_lock' = Nobody
    /\ pause_reader' = FALSE
    /\ AfterQuery(t)
    /\ UNCHANGED <<port, stop_reader, pending_stop, ncmd, wvars>>

\* _query_scpi raises: end_time has passed without a line, or the port is
\* closed under it; the lock is released and pause_reader cleared
QueryFail(t) ==
    /\ tpc[t] \in {"q1w", "q1r", "q2w", "q2r"}
    /\ tpc[t] \in {"q1w", "q2w"} => port = "closed"
    /\ serial_lock' = IF serial_lock = t THEN Nobody ELSE serial_lock
    /\ pause_reader' = IF tpc[t] \in {"q1r", "q2r"} THEN FALSE
                       ELSE pause_reader
    /\ open_tx' = {x \in open_tx : x.by # t \/ x.kind # "query"}
    /\ op' = NoOp
    /\ IF t = T_GUI
       THEN /\ tpc' = [tpc EXCEPT ![t] = "idle"]
            /\ UNCHANGED pending_stop
       ELSE /\ tpc' = [tpc EXCEPT ![t] = "none"]
            /\ pending_stop' = TRUE
    /\ UNCHANGED <<port, stop_reader, monitor_running, monitor_stop_event,
                   srx, ncmd, nmon, wvars>>

\* _monitor_temp_loop: while not self.monitor_stop_event.is_set()
MonitorCheck(t) ==
    /\ tpc[t] = "check"
    /\ tpc' = [tpc EXCEPT ![t] = IF monitor_stop_event THEN "none" ELSE "q1w"]
    /\ op' = NoOp
    /\ UNCHANGED <<port, serial_lock, stop_reader, pause_reader,
                   monitor_running, monitor_stop_event, pending_stop, srx,
                   open_tx, ncmd, nmon, wvars>>

\* _monitor_temp_loop: time.sleep(0.1)
MonitorSleep(t) ==
    /\ tpc[t] = "sleep"
    /\ tpc' = [tpc EXCEPT ![t] = "check"]
    /\ op' = NoOp
    /\ UNCHANGED <<port, serial_lock, stop_reader, pause_reader,
                   monitor_running, monitor_stop_event, pending_stop, srx,
                   open_tx, ncmd, nmon, wvars>>

\* _reader_loop: the loop condition, the pause check and the lock
ReaderLoop ==
    /\ tpc[T_READER] = "loop"
    /\ op' = NoOp
    /\ IF stop_reader \/ port = "closed"
       THEN /\ tpc' = [tpc EXCEPT ![T_READER] = "none"]
            /\ UNCHANGED serial_lock
       ELSE /\ ~pause_reader
            /\ serial_lock = Nobody
            /\ serial_lock' = T_READER
            /\ tpc' = [tpc EXCEPT ![T_READER] = "reading"]
    /\ UNCHANGED <<port, stop_reader, pause_reader, monitor_running,
                   monitor_stop_event, pending_stop, srx, open_tx, ncmd, nmon,
                   wvars>>

\* _reader_loop: raw = self.ser.readline() under the lock
ReaderRead ==
    /\ tpc[T_READER] = "reading"
    /\ serial_lock' = Nobody
    /\ \/ /\ port = "open"
          /\ srx # <<>>
          /\ srx' = Tail(srx)
          /\ open_tx' = {x \in open_tx : x.id # Head(srx)}
          /\ op' = Op(T_READER, "read")
          /\ tpc' = [tpc EXCEPT ![T_READER] = "loop"]
       \/ /\ port = "open"
          /\ op' = Op(T_READER, "read")
          /\ tpc' = [tpc EXCEPT ![T_READER] = "loop"]
          /\ UNCHANGED <<srx, open_tx>>
       \/ /\ port = "closed"
          /\ op' = NoOp
          /\ tpc' = [tpc EXCEPT ![T_READER] = "none"]
          /\ UNCHANGED <<srx, open_tx>>
    /\ UNCHANGED <<port, stop_reader, pause_reader, monitor_running,
                   monitor_stop_event, pending_stop, ncmd, nmon, wvars>>

QueryThreads == {T_GUI} \cup MonThreads

NextScpi ==
    \/ ScpiConnect
    \/ ScpiDisconnect
    \/ SendCommand
    \/ ToggleMonitor
    \/ PendingStop
    \/ \E t \in QueryThreads : QueryBegin(t)
    \/ \E t \in QueryThreads : QueryRead(t)
    \/ \E t \in QueryThreads : QueryFail(t)
    \/ \E t \in MonThreads : MonitorCheck(t)
    \/ \E t \in MonThreads : MonitorSleep(t)
    \/ ReaderLoop
    \/ ReaderRead

\* ------------------------------------------------------------ Spec
InitWith(b) ==
    /\ pc = "idle"
    /\ mode = "normal"
    /\ interval = 10
    /\ stop = FALSE
    /\ ser = "closed"
    /\ manual_q = <<>>
    /\ q_sess = <<>>
    /\ now = 0
    /\ next_cycle = 0
    /\ deadline = 0
    /\ rf = RfIdle
    /\ rctx = "none"
    /\ temps = NoTemps
    /\ lines = <<>>
    /\ idle_deadline = 0
    /\ rx = <<>>
    /\ rx_old = 0
    /\ emitted = <<>>
    /\ wr = NoCmd
    /\ errorCount = 0
    /\ ioFailed = "none"
    /\ stopAsked = FALSE
    /\ nextId = 1
    /\ sessions = 0
    /\ poll_start = -1
    /\ slow = FALSE
    /\ man_since = FALSE
    /\ budget = b
    /\ script = <<>>
    /\ res = NoRes

InitWorker ==
    /\ InitWith([time |-> MaxTime, sessions |-> MaxSessions,
                 manual |-> MaxManual])
    /\ InitStats
    /\ InitHistory

Init == InitWorker /\ InitScpi

Next ==
    \/ \E m \in Modes, iv \in Intervals : Start(m, iv)
    \/ Stop
    \/ Enqueue
    \/ Open
    \/ HsSend
    \/ LoopInit
    \/ LoopExit
    \/ ServeManual
    \/ Sleep
    \/ PollStart
    \/ SendOthers
    \/ RfReturn
    \/ RfRead
    \/ RfFail
    \/ ManFirst
    \/ ManMore
    \/ Exit

Spec == Init /\ [][Next]_vars

SpecScpi == Init /\ [][NextScpi]_vars

\* ------------------------------------------------------------ SpecPoll
\* One session with nothing typed into the terminal: the clock runs long
\* enough for a poll cycle in which both reads time out.
MaxPollTime == 6

InitPoll ==
    /\ InitWith([time |-> MaxPollTime, sessions |-> 1, manual |-> 0])
    /\ InitStats
    /\ InitHistory
    /\ InitScpi

NextPoll ==
    \/ \E m \in Modes, iv \in Intervals : Start(m, iv)
    \/ Stop
    \/ Open
    \/ HsSend
    \/ LoopInit
    \/ LoopExit
    \/ Sleep
    \/ PollStart
    \/ SendOthers
    \/ RfReturn
    \/ RfRead
    \/ RfFail
    \/ Exit

SpecPoll == InitPoll /\ [][NextPoll]_vars

\* ------------------------------------------------------------ SpecStats
\* The deviation statistics under any sequence of readings and resets.
SpecStats == Init /\ [][NextStats]_vars

\* ------------------------------------------------------------ SpecManual
\* The monitor with the terminal given blank texts as well, and with
\* enqueue_manual called directly, so that blank entries reach the queue.
MaxManTime == 3

InitManual ==
    /\ InitWith([time |-> MaxManTime, sessions |-> MaxSessions,
                 manual |-> MaxManual])
    /\ InitStats
    /\ InitHistory
    /\ InitScpi

NextManual ==
    \/ \E m \in Modes, iv \in Intervals : Start(m, iv)
    \/ Stop
    \/ Enqueue
    \/ \E t \in BlankTexts : RejectBlank(t)
    \/ \E t \in BlankTexts : EnqueueRaw(t)
    \/ Open
    \/ HsSend
    \/ LoopInit
    \/ LoopExit
    \/ ServeManual
    \/ TakeBlank
    \/ Sleep
    \/ PollStart
    \/ SendOthers
    \/ RfReturn
    \/ RfRead
    \/ RfFail
    \/ ManFirst
    \/ ManMore
    \/ Exit

SpecManual == InitManual /\ [][NextManual]_vars

\* ------------------------------------------------------------ SpecSession
\* The sessions of the monitor as the GUI thread sees them.  The worker is
\* kept to what the statistics depend on: while it runs it emits Data
\* signals, and it ends when disconnect_port stops it.  The signals are
\* emitted in the worker thread and received by MainWindow in the GUI thread
\* (self.worker.data.connect(self.on_data)): each is queued and on_data runs
\* when the GUI event loop takes it.  A queued entry carries, besides the
\* payload, the number of the session that emitted it.
MaxConnects == 2
MaxQueue == 2

G_session == <<interval, ser, manual_q, q_sess, now, next_cycle, deadline, rf, rctx,
               temps, lines, idle_deadline, rx, rx_old, emitted, wr,
               errorCount,
               ioFailed, stopAsked, nextId, poll_start, slow, man_since,
               budget, script, res, svars, hvars>>

\* a frame all of whose fields hold the text c
Frame(m, c) ==
    [mode |-> m,
     values |-> [i \in 1..(IF m = "normal" THEN FIELDS_ALL
                            ELSE FIELDS_TEMPS + FIELDS_OTHERS) |-> c]]
Queued(p, n) == [mode |-> p.mode, values |-> p.values, sess |-> n]

\* MainWindow._start_worker: nothing while the worker runs; otherwise
\* reset_stats_all(), configure(...), start(), and run() reaches its loop
SessConnect(m) ==
    /\ pc = "idle"
    /\ sessions < MaxConnects
    /\ reset_stats_all
    /\ mode' = m
    /\ sessions' = sessions + 1
    /\ stop' = FALSE
    /\ pc' = "top"
    /\ UNCHANGED G_session

\* SerialWorker.run: self.data.emit({...}) at the end of a poll cycle
WorkerData(c) ==
    /\ pc = "top"
    /\ ~stop
    /\ Len(gq) < MaxQueue
    /\ gq' = Append(gq, Queued(Frame(mode, c), sessions))
    /\ UNCHANGED <<pc, mode, sessions, stop, stats, mono, nupd, sop,
                   G_session>>

\* MainWindow.disconnect_port: worker.stop(); worker.wait(2000).  The GUI
\* thread is blocked until run() has returned; a poll cycle that was under
\* way may still emit its Data (last) before the loop sees _stop.
SessDisconnect(last) ==
    /\ pc = "top"
    /\ stop' = TRUE
    /\ pc' = "idle"
    /\ gq' = IF last = "none" \/ Len(gq) >= MaxQueue THEN gq
             ELSE Append(gq, Queued(Frame(mode, last), sessions))
    /\ UNCHANGED <<mode, sessions, stats, mono, nupd, sop, G_session>>

\* the GUI event loop delivers the oldest queued Data signal: on_data
Deliver(dt) ==
    /\ gq # <<>>
    /\ on_data([mode |-> Head(gq).mode, values |-> Head(gq).values], dt)
    /\ gq' = Tail(gq)

InitSession == Init

NextSession ==
    \/ \E m \in Modes : SessConnect(m)
    \/ \E c \in {"0", "3"} : WorkerData(c)
    \/ \E last \in {"none", "0", "3"} : SessDisconnect(last)
    \/ \E dt \in StatSteps : Deliver(dt)

SpecSession == InitSession /\ [][NextSession]_vars

\* ------------------------------------------------------------ SpecFrame
\* _read_frame_data_plus_ok(expected_fields) called on a quiet port while the
\* device sends the lines of script.
FrameExpected == {0, 4}
FrameAlphabet(e) ==
    {OKL, OKlower, ERRL, BlankL, Dat(1, 1)}
    \cup (IF e > 0 THEN {Dat(e, 1), Dat(e, 2), Line("ERR", e, 0)}
                   ELSE {Dat(4, 1)})
SeqsUpTo(S, n) == UNION {[1..k -> S] : k \in 0..n}

\* the call starts at p: "rf" or, for _read_data_and_ok, "rfx"
InitFrameAt(p) ==
    /\ pc = p
    /\ rctx = "fn"
    /\ \E e \in FrameExpected :
         /\ rf = RfStart(e)
         /\ script \in SeqsUpTo(FrameAlphabet(e), MaxLen)
    /\ rx = script
    /\ rx_old = 0
    /\ now = 0
    /\ deadline = READ_TIMEOUT
    /\ budget = [time |-> READ_TIMEOUT + SERIAL_POLL_TIMEOUT, sessions |-> 0,
                 manual |-> 0]
    /\ ser = "open"
    /\ mode = "normal"
    /\ interval = 10
    /\ stop = FALSE
    /\ manual_q = <<>>
    /\ q_sess = <<>>
    /\ next_cycle = 0
    /\ temps = NoTemps
    /\ lines = <<>>
    /\ idle_deadline = 0
    /\ emitted = <<>>
    /\ wr = NoCmd
    /\ errorCount = 0
    /\ ioFailed = "none"
    /\ stopAsked = FALSE
    /\ nextId = 1
    /\ sessions = 1
    /\ poll_start = -1
    /\ slow = FALSE
    /\ man_since = FALSE
    /\ res = NoRes
    /\ InitStats
    /\ InitHistory
    /\ InitScpi

InitFrame == InitFrameAt("rf")

NextFrame ==
    \/ RfRead
    \/ RfReturn
    \/ Stop

SpecFrame == InitFrame /\ [][NextFrame]_vars

\* ------------------------------------------------------------ SpecStream
\* One frame read or one manual-response read against a device that may go
\* on sending lines for ever: blank lines, lines that are no frame, OK.  A
\* line takes one tick on the wire.  The worker thread keeps running.
StreamAlphabet == {BlankL, Dat(1, 1), OKL}

InitStream ==
    /\ \/ /\ pc = "rf"
          /\ rctx = "fn"
          /\ \E e \in FrameExpected : rf = RfStart(e)
       \/ /\ pc = "man_first"
          /\ rctx = "none"
          /\ rf = RfIdle
    /\ script = <<>>
    /\ rx = <<>>
    /\ rx_old = 0
    /\ now = 0
    /\ deadline = READ_TIMEOUT
    /\ budget = [time |-> READ_TIMEOUT + 2 * SERIAL_POLL_TIMEOUT,
                 sessions |-> 0, manual |-> 0]
    /\ ser = "open"
    /\ mode = "normal"
    /\ interval = 10
    /\ stop = FALSE
    /\ manual_q = <<>>
    /\ q_sess = <<>>
    /\ next_cycle = 0
    /\ temps = NoTemps
    /\ lines = <<>>
    /\ idle_deadline = 0
    /\ emitted = <<>>
    /\ wr = NoCmd
    /\ errorCount = 0
    /\ ioFailed = "none"
    /\ stopAsked = FALSE
    /\ nextId = 1
    /\ sessions = 1
    /\ poll_start = -1
    /\ slow = FALSE
    /\ man_since = FALSE
    /\ res = NoRes
    /\ InitStats
    /\ InitHistory
    /\ InitScpi

\* the device sends one more line while the worker waits in readline()
Stream ==
    /\ pc \in ReadingPcs
    /\ ReadCond
    /\ rx = <<>>
    /\ \E l \in StreamAlphabet : rx' = <<l>>
    /\ rx_old' = 0
    /\ Tick(1)
    /\ emitted' = <<>>
    /\ wr' = NoCmd
    /\ UNCHANGED <<pc, ser, G_cfg, G_frame, G_man, G_sched, G_err, G_gui>>

ReadStep == RfRead \/ RfReturn \/ ManFirst \/ ManMore

NextStream == ReadStep \/ Stream

SpecStream == InitStream /\ [][NextStream]_vars /\ WF_vars(ReadStep)

\* lines of script the call has read so far
used == Len(script) - Len(rx)
\* a line that becomes the frame of a call expecting e fields
IsMatch(l, e) == e > 0 /\ ~IsTerminator(l) /\ ~IsBlank(l) /\ l.n = e
\* script[j] is a terminator read after a frame was captured (or expecting 0)
TermAfterFrame(j, e) ==
    /\ IsTerminator(script[j])
    /\ (e = 0 \/ \E i \in 1..(j - 1) : IsMatch(script[i], e))

\* ------------------------------------------------------------ claims

\* C1: no command is written to the port while the read that belongs to the
\* previous write is still in progress (frame read or manual-response read).
MutualExclusion == [][wr' # NoCmd => pc \notin ReadingPcs]_vars
\* the second command of an R+D cycle has been written after the first read
\* returned, and its own read is in progress
WitnessMutualExclusion == wr = CMD_OTHERS /\ pc = "rf" /\ rctx = "others"

\* C2: while a command's reply is outstanding, the port is used only by the
\* transaction of that command: for a query by the thread running the query,
\* for send_command by the GUI thread and the reader that reads its reply.
Permitted(t, o) ==
    IF t.kind = "query" THEN o.by = t.by ELSE o.by \in {T_GUI, T_READER}
AtomicTransactions ==
    [][op'.kind # "none" => \A t \in open_tx : Permitted(t, op')]_vars

\* C3: a terminal command that is written is the oldest one waiting, one
\* command leaves the queue per iteration, and with a command waiting at the
\* top of the loop no poll command is written, whatever the poll deadline.
ManualFifoFirst ==
    [][ /\ (wr'.c = "MAN" =>
              /\ pc = "top"
              /\ \A i \in 1..Len(manual_q) : wr'.id <= manual_q[i]
              /\ Len(manual_q') = Len(manual_q) - 1)
        /\ (pc = "top" /\ manual_q # <<>> => wr' \notin PollCmds) ]_vars
\* the second of two queued commands is written with the poll cycle due
WitnessManualFifoFirst ==
    wr = Cmd("MAN", 2) /\ pc = "man_first" /\ now >= next_cycle

\* C4: a completed poll cycle sets next_cycle to
\* max(next_cycle + interval, now); inside a session next_cycle never
\* decreases, and a cycle starts only from the top of the loop with the
\* deadline reached.
CycleEnds == pc = "rf" /\ rctx \in {"all", "others"} /\ pc' = "top"
DeadlineRule ==
    [][ /\ (CycleEnds =>
              /\ next_cycle' = Max(next_cycle + interval, now')
              /\ next_cycle' >= now')
        /\ (pc # "loop_init" => next_cycle' >= next_cycle)
        /\ (wr' \in {CMD_ALL, CMD_TEMPS} => pc = "top" /\ now >= next_cycle)
      ]_vars
\* a slow cycle has just ended: the deadline is now, not a missed one
WitnessDeadlineRule ==
    pc = "top" /\ slow /\ poll_start >= 0 /\ next_cycle = now
    /\ now > poll_start + interval

\* C5: with no terminal command served in the session, a poll cycle that
\* follows a cycle costing less than the interval starts exactly one interval
\* after that cycle started.
CadenceExact ==
    [][ (wr' \in {CMD_ALL, CMD_TEMPS} /\ poll_start >= 0 /\ ~slow
         /\ ~man_since) => now' - poll_start = interval ]_vars
\* a cycle has started one interval after a cycle that took time
WitnessCadenceExact ==
    /\ wr \in {CMD_ALL, CMD_TEMPS}
    /\ pc = "rf"
    /\ ~slow
    /\ ~man_since
    /\ poll_start = now
    /\ next_cycle = now
    /\ now >= interval
    /\ ioFailed = "none"
    /\ nextId = 1

\* C6: once a transport call has failed in the loop (poll cycle or terminal
\* command) the session is over: Error was emitted and the loop has ended.
FailureIsFatal ==
    ioFailed \in {"manual", "poll"} =>
        /\ pc \in {"exit", "idle"}
        /\ errorCount >= 1
        /\ (pc = "idle" => ser = "closed")

\* C7: a session emits at most one Error, and after it no Data, Warning or
\* TerminalLine is emitted and no command is written in that session.
OneTerminalError ==
    [][ /\ errorCount' <= 1
        /\ (errorCount >= 1 /\ errorCount' >= 1 =>
              /\ wr' = NoCmd
              /\ Kinds(emitted') \cap {"Data", "Warn", "Term"} = {}) ]_vars
\* a poll cycle has failed: Error is out and the loop has been left
WitnessOneTerminalError ==
    errorCount = 1 /\ ioFailed = "poll" /\ pc = "exit"
    /\ Kinds(emitted) = {"Error"}

\* C8: a stop requested while run() is active stays pending until run()
\* returns.
StopNeverLost == (stopAsked /\ pc # "idle") => stop

\* C9: the frame read returns at the first terminator read after a frame was
\* captured (at the first terminator when it expects 0 fields), and over
\* [lines that are no frame..., one frame line, OK] it returns that frame
\* with the OK.
FrameThenOK(e) ==
    LET n == Len(script) IN
    /\ n >= 2
    /\ IsOK(script[n])
    /\ IsMatch(script[n - 1], e)
    /\ \A i \in 1..(n - 2) : ~IsMatch(script[i], e)
FrameReturnsOnTerminator ==
    /\ \A j \in 1..used :
         TermAfterFrame(j, rf.expected) => (pc = "fn_done" /\ j = used)
    /\ (pc = "fn_done" /\ FrameThenOK(rf.expected) /\ used = Len(script)) =>
         res = [data |-> script[Len(script) - 1], ok |-> TRUE,
                term |-> script[Len(script)]]
\* readFrame(4) over ["garbage", "1,2,3,4", "OK"] has returned the frame
WitnessFrameReturnsOnTerminator ==
    /\ pc = "fn_done"
    /\ script = <<Dat(1, 1), Dat(4, 1), OKL>>
    /\ res = [data |-> Dat(4, 1), ok |-> TRUE, term |-> OKL]

\* C10: the frame a call returns is the first line it read that has the
\* expected number of fields.
FirstFrameKept ==
    (pc = "fn_done" /\ res.data # NoLine) =>
        \E i \in 1..used :
            /\ IsMatch(script[i], rf.expected)
            /\ res.data = script[i]
            /\ \A k \in 1..(i - 1) : ~IsMatch(script[k], rf.expected)

\* C11: a call expecting a frame that has read a terminator and holds no
\* frame does not return before its deadline (unless stop() was called).
WaitsForFrameAfterTerminator ==
    (pc = "fn_done" /\ rf.expected > 0 /\ rf.term # NoLine
     /\ res.data = NoLine /\ ~stop) => now >= READ_TIMEOUT

\* C13: a call that received no line returns no frame and no terminator, and
\* a returned frame is a line the call read that has the expected number of
\* fields.
NoLineNoFrame ==
    pc = "fn_done" =>
        /\ (used = 0 => res = NoRes)
        /\ (res.data # NoLine =>
              \E i \in 1..used :
                  /\ res.data = script[i]
                  /\ script[i].n = rf.expected
                  /\ rf.expected > 0)
\* readFrame(4) over no lines has returned at the first readline timeout
WitnessNoLineNoFrame ==
    /\ pc = "fn_done"
    /\ script = <<>>
    /\ rf.expected = 4
    /\ res = NoRes
    /\ now = SERIAL_POLL_TIMEOUT

\* the frame read of a poll cycle returns to run() (it did not raise)
FrameEnds ==
    /\ pc = "rf"
    /\ rctx \in {"all", "temps", "others"}
    /\ pc' \in {"top", "rd_send2"}
\* ok_seen as the returning call leaves it: the step may read a terminator
EndOk ==
    IF rx' # rx /\ IsTerminator(Head(rx)) THEN IsOK(Head(rx)) ELSE rf.ok_seen

\* C12: a poll read that ends holding a frame and no OK hands the frame on:
\* All? emits Warning and Data(ok = false); TEMPeratures emits Warning and
\* keeps the frame for the cycle's Data; OTHers emits Warning and the
\* combined Data(ok = false); a TEMPeratures frame held when the OTHers read
\* ends always reaches a Data event.
MissingAckKeepsFrame ==
    [][ /\ (FrameEnds /\ rf.data_parts # NoLine /\ ~EndOk) =>
              CASE rctx = "all" ->
                     emitted' = <<Ev("Warn"), DataEv(FIELDS_ALL, FALSE)>>
                [] rctx = "temps" ->
                     /\ emitted' = <<Ev("Warn")>>
                     /\ temps' = [data |-> rf.data_parts, ok |-> FALSE]
                [] OTHER ->
                     emitted' = <<Ev("Warn"),
                                  DataEv(FIELDS_TEMPS + FIELDS_OTHERS, FALSE)>>
        /\ (FrameEnds /\ rctx = "others" /\ temps.data # NoLine) =>
              /\ "Data" \in Kinds(emitted')
              /\ temps.ok \/ emitted'[Len(emitted')].ok = FALSE ]_vars
\* an All? cycle has ended with a frame and no OK
WitnessMissingAckKeepsFrame ==
    /\ pc = "top"
    /\ mode = "normal"
    /\ emitted = <<Ev("Warn"), DataEv(FIELDS_ALL, FALSE)>>
    /\ poll_start >= 0

\* C14: a poll cycle that captured no frame emits nothing when its last read
\* returns (with no stop pending).
NoFrameSilent ==
    [][ (/\ FrameEnds
         /\ ~stop
         /\ rf.data_parts = NoLine
         /\ \/ rctx = "all"
            \/ rctx = "others" /\ temps.data = NoLine)
        => emitted' = <<>> ]_vars

\* the manual-response read returns to run() without having raised
ManualReadEnds ==
    /\ pc \in {"man_first", "man_more"}
    /\ pc' = "top"
    /\ ioFailed' = ioFailed

\* C16: the read of a manual response that ends with no stop pending has
\* read a terminator, or has seen IDLE_TIMEOUT pass since the last line (the
\* write, when no line came), or has reached its deadline; the lines it read
\* are emitted in order, one event each.
ManualReadUntilIdle ==
    [][ (ManualReadEnds /\ ~stop) =>
          /\ \/ rx' # rx /\ IsTerminator(Head(rx))
             \/ now' >= deadline
             \/ pc = "man_first" /\ now' >= deadline - READ_TIMEOUT + IDLE_TIMEOUT
             \/ pc = "man_more" /\ now' >= idle_deadline
          /\ Len(emitted') =
               IF rx' # rx /\ ~IsBlank(Head(rx)) THEN Len(lines) + 1
               ELSE IF lines = <<>> THEN 1 ELSE Len(lines) ]_vars

\* the read has returned
ReadDone == pc \in {"fn_done", "top"}

\* C15 as stated: every read returns, and no later than its deadline.
ReadEndsByDeadline == ReadDone => now <= READ_TIMEOUT

\* C15: every frame read and every manual-response read returns, whatever
\* the device sends, and earlier than one readline timeout after its
\* deadline.
ReadsTerminate ==
    /\ <>ReadDone
    /\ [](ReadDone => now < READ_TIMEOUT + SERIAL_POLL_TIMEOUT)
\* a frame read against a device that streamed up to the deadline has
\* returned, after the deadline
WitnessReadsTerminate ==
    /\ pc = "fn_done"
    /\ now > READ_TIMEOUT
    /\ res.data = NoLine

\* C17: the port is closed only when no thread is inside a read of the port
\* or holds the lock.
CloseWaitsForReaders ==
    [][ (port = "open" /\ port' = "closed") =>
          /\ serial_lock = Nobody
          /\ \A t \in Threads : tpc[t] \notin {"reading", "q1r", "q2r"} ]_vars

RECURSIVE SeqSum(_)
SeqSum(w) == IF w = <<>> THEN 0 ELSE Head(w) + SeqSum(Tail(w))

\* C18: for every channel the window holds at most N readings, sum_ is the
\* sum of the readings in the window, and once a reading was taken
\* mean = sum_ / len(window) and dev = latest reading - mean.
WindowInvariant ==
    \A k \in StatKeys :
        LET st == stats[k] IN
        /\ Len(st.window) <= StatN
        /\ st.sum_ = SeqSum(st.window)
        /\ st.window # <<>> =>
             /\ st.mean * Len(st.window) = Scale * st.sum_
             /\ st.dev = Scale * st.window[Len(st.window)] - st.mean
\* a full window has evicted its oldest reading: 3 left, 0 came
WitnessWindowInvariant ==
    /\ nupd >= StatN + 1
    /\ stats["SHG"].window = [i \in 1..StatN |-> IF i = 1 THEN 3 ELSE 0]
    /\ stats["SHG"].sum_ = 3
    /\ sop.kind = "update"

\* C19: an update of a channel sets latched_pos to max(latched_pos, dev) and
\* latched_neg to min(latched_neg, dev); in every step that is no reset
\* latched_pos does not decrease and latched_neg does not increase.
LatchedMonotone ==
    [][ \A k \in StatKeys :
          /\ (sop'.kind = "update" /\ k \in sop'.keys) =>
                /\ stats'[k].latched_pos
                     = Max(stats[k].latched_pos, stats'[k].dev)
                /\ stats'[k].latched_neg
                     = Min(stats[k].latched_neg, stats'[k].dev)
          /\ (sop'.kind \notin {"reset", "init"}) =>
                /\ stats'[k].latched_pos >= stats[k].latched_pos
                /\ stats'[k].latched_neg <= stats[k].latched_neg ]_vars
\* an update has left a latched maximum above the deviation it computed
WitnessLatchedMonotone ==
    /\ sop.kind = "update"
    /\ "SHG" \in sop.keys
    /\ stats["SHG"].latched_pos > 0
    /\ stats["SHG"].dev < stats["SHG"].latched_pos
    /\ stats["SHG"].latched_neg < 0

\* C20: a reset sets latched_pos and latched_neg of every channel to 0 and
\* changes nothing else of the statistics.
ResetOnlyLatched ==
    [][ sop'.kind = "reset" =>
          \A k \in StatKeys :
              stats'[k] = [stats[k] EXCEPT !.latched_pos = 0,
                                           !.latched_neg = 0] ]_vars
\* a reset has cleared the latched extrema and left a bar peak standing
WitnessResetOnlyLatched ==
    /\ sop.kind = "reset"
    /\ stats["SHG"].latched_pos = 0
    /\ stats["SHG"].latched_neg = 0
    /\ stats["SHG"].bar_peak_pos > 0
    /\ stats["SHG"].window # <<>>

\* C21: an update of a channel at a time more than the hold after the
\* timestamp of its bar peak, whose deviation is no new extreme, sets
\* bar_peak_pos to max(dev, 0) and t_bar_pos to now; the same holds for
\* bar_peak_neg with min(dev, 0) and t_bar_neg.
BarPeakDecays ==
    [][ \A k \in StatKeys :
          (sop'.kind = "update" /\ k \in sop'.keys) =>
            /\ ( /\ mono' - stats[k].t_bar_pos > HoldTicks
                 /\ ~(stats'[k].dev > stats[k].bar_peak_pos) ) =>
                   /\ stats'[k].bar_peak_pos = Max(stats'[k].dev, 0)
                   /\ stats'[k].t_bar_pos = mono'
            /\ ( /\ mono' - stats[k].t_bar_neg > HoldTicks
                 /\ ~(stats'[k].dev < stats[k].bar_peak_neg) ) =>
                   /\ stats'[k].bar_peak_neg = Min(stats'[k].dev, 0)
                   /\ stats'[k].t_bar_neg = mono' ]_vars
\* a positive bar peak was held and has relaxed to 0 in an update whose
\* deviation was no extreme
WitnessBarPeakDecays ==
    /\ sop.kind = "update"
    /\ "SHG" \in sop.keys
    /\ stats["SHG"].latched_pos > 0
    /\ stats["SHG"].dev <= 0
    /\ stats["SHG"].bar_peak_pos = 0
    /\ stats["SHG"].t_bar_pos = mono
    /\ Len(stats["SHG"].window) = StatN

\* C22: whatever response vector arrives next, in Normal mode only SHG is updated,
\* from field 5 of the 14, and in Extended mode Reso from field 0 and SHG
\* from field 4 of the 17; a channel that is absent in the mode (Reso in
\* Normal mode) and every channel of a TEMPeratures half that was not
\* received keep their statistics exactly.
OnlyModeChannelsUpdated ==
    \A p \in AllPayloads :
        LET t == mono + 1
            after == update_temp_table_display(stats, p.mode, p.values,
                                               HoldTicks, t)
            fed(k, i) ==
                IF p.values[i + 1] \in {"0", "3"}
                THEN after[k] = update_tempstats(stats[k],
                                    IF p.values[i + 1] = "3" THEN 3 ELSE 0,
                                    HoldTicks, t)
                ELSE after[k] = stats[k]
        IN  /\ p.mode = "normal" =>
                /\ after["Reso"] = stats["Reso"]
                /\ fed("SHG", 5)
            /\ p.mode = "rd" =>
                /\ fed("Reso", 0)
                /\ fed("SHG", 4)
            /\ (p.mode = "rd" /\ \A i \in 1..FIELDS_TEMPS : p.values[i] = "") =>
                after = stats
\* a Normal frame has updated SHG and left the statistics Reso gathered in
\* Extended mode standing
WitnessOnlyModeChannelsUpdated ==
    /\ sop.kind = "update"
    /\ sop.m = "normal"
    /\ sop.keys = {"SHG"}
    /\ Len(stats["Reso"].window) = StatN
    /\ stats["Reso"].latched_pos > 0
    /\ stats["Reso"].dev > 0
    /\ stats["SHG"].dev = 0
    /\ nupd > StatN

\* C23: whatever frame arrives next, a channel of its mode whose field is no
\* number keeps its statistics exactly, and every other channel of the mode
\* whose field is a number is updated with that number, as it would be in a
\* frame without the bad field.
NonNumericSkipsOnlyItsChannel ==
    \A p \in Payloads :
        LET t == mono + 1
            after == update_temp_table_display(stats, p.mode, p.values,
                                               HoldTicks, t)
            at == IF p.mode = "normal" THEN [k \in {"SHG"} |-> 6]
                  ELSE [k \in {"Reso", "SHG"} |-> IF k = "Reso" THEN 1 ELSE 5]
            numeric(k) == p.values[at[k]] \in {"0", "3"}
        IN  \A k \in DOMAIN at :
              ~numeric(k) =>
                /\ after[k] = stats[k]
                /\ \A o \in DOMAIN at \ {k} :
                     numeric(o) =>
                       after[o] = update_tempstats(stats[o],
                                     IF p.values[at[o]] = "3" THEN 3 ELSE 0,
                                     HoldTicks, t)
\* an Extended frame whose Reso field was no number has updated SHG and left
\* Reso as it was
WitnessNonNumericSkipsOnlyItsChannel ==
    /\ sop.kind = "update"
    /\ sop.m = "rd"
    /\ sop.keys = {"SHG"}
    /\ stats["Reso"].window = <<3>>
    /\ stats["SHG"].window = <<3, 0>>
    /\ nupd = 2

\* C24: a connect re-initialises the statistics of every channel, and every
\* reading that updates the statistics was emitted by the session that is
\* current when it is processed: no reading of an earlier session enters
\* the statistics after the connect that follows it.
NoReadingSurvivesReconnect ==
    [][ /\ sessions' = sessions + 1 =>
            stats' = [k \in StatKeys |-> init_tempstats]
        /\ ( /\ gq # <<>>
             /\ gq' = Tail(gq)
             /\ sop'.kind = "update"
             /\ sop'.keys # {} ) =>
            Head(gq).sess = sessions ]_vars

\* C25: while run() is at the opening of the port nothing is written and
\* nothing is emitted but by the open itself; a failed open emits exactly
\* one Error and ends the run with the port closed; and a run that has
\* ended emits nothing, writes nothing and opens nothing again unless the
\* GUI starts a new session.
OpenFailureIsFinal ==
    [][ /\ pc = "open" =>
            /\ wr' = NoCmd
            /\ emitted' \in {<<>>, <<Ev("Connected")>>, <<Ev("Error")>>}
            /\ (emitted' = <<Ev("Error")>>) <=> (pc' = "idle")
            /\ (emitted' = <<Ev("Connected")>>) <=> (ser' = "open")
            /\ pc' = "idle" => ser' = "closed"
        /\ pc = "idle" =>
            /\ wr' = NoCmd
            /\ emitted' = <<>>
            /\ ser' = ser
            /\ pc' \in {"idle", "open"}
            /\ pc' = "open" => sessions' = sessions + 1 ]_vars
\* the open has failed: one Error, the port closed, the run over
WitnessOpenFailureIsFinal ==
    /\ pc = "idle"
    /\ sessions = 1
    /\ ser = "closed"
    /\ emitted = <<Ev("Error")>>
    /\ errorCount = 1
    /\ ioFailed = "none"
    /\ wr = NoCmd

\* C26: the terminal leaves the queue as it is when the text is empty or
\* white space only; no manual command that is written is blank; and the
\* step in which the worker takes a blank entry from the queue writes
\* nothing, emits nothing, reads no line, lets no time pass and starts no
\* manual read.
BlankNeverReachesTransport ==
    /\ [](\A t \in BlankTexts : TerminalQueue(t, manual_q) = manual_q)
    /\ [][ /\ wr'.c = "MAN" => wr'.id > 0
           /\ ( /\ manual_q # <<>>
                /\ Head(manual_q) \in BlankTexts
                /\ manual_q' = Tail(manual_q) ) =>
                  /\ wr' = NoCmd
                  /\ emitted' = <<>>
                  /\ rx' = rx
                  /\ now' = now
                  /\ lines' = lines
                  /\ deadline' = deadline
                  /\ pc' \in {"top", "poll"} ]_vars
\* the worker has taken an empty text from the queue and goes on to the poll
\* deadline, with nothing written
WitnessBlankNeverReachesTransport ==
    /\ pc = "poll"
    /\ ser = "open"
    /\ wr = NoCmd
    /\ emitted = <<>>
    /\ nextId > 1

\* C27: every Data signal carries 14 fields in Normal mode and 17 in
\* Extended mode; and the vector an Extended cycle puts together is, in this
\* order, fields 1..10 of the TEMPeratures line or 10 placeholders, then
\* fields 1..7 of the OTHers line or 7 placeholders.
DataFieldCount ==
    /\ \A i \in 1..Len(emitted) :
         emitted[i].k = "Data" =>
           emitted[i].n = IF mode = "normal" THEN 14 ELSE 17
    /\ (pc = "rf" /\ rctx = "others") =>
         LET c == Combined(temps.data, rf.data_parts) IN
         /\ Len(c) = 17
         /\ \A i \in 1..10 :
              c[i] = IF temps.data = NoLine THEN <<"", 0>> ELSE <<"TEMPS", i>>
         /\ \A i \in 1..7 :
              c[10 + i] = IF rf.data_parts = NoLine THEN <<"", 0>>
                          ELSE <<"OTHERS", i>>
\* an Extended cycle with both frames acknowledged has emitted its Data
WitnessDataFieldCount ==
    /\ mode = "rd"
    /\ emitted = <<DataEv(17, TRUE)>>
    /\ pc = "top"

\* C28: no step of a manual transaction, from the taking of the command to
\* the return of its read, changes next_cycle; and when the loop is at its
\* top with the queue empty and the poll due, the next step of the worker
\* starts the poll.
ManualKeepsPollDeadline ==
    [][ /\ ( \/ pc = "top" /\ pc' = "man_first"
             \/ pc \in {"man_first", "man_more"} ) =>
              next_cycle' = next_cycle
        /\ ( /\ pc = "top"
             /\ ~stop
             /\ manual_q = <<>>
             /\ now >= next_cycle
             /\ (pc' # pc \/ now' # now) ) =>
              /\ pc' \in {"rf", "exit"}
              /\ pc' = "rf" =>
                   /\ wr' \in {CMD_ALL, CMD_TEMPS}
                   /\ poll_start' = now ]_vars
\* a poll that became due during a manual transaction has started late,
\* against the deadline the transaction left standing
WitnessManualKeepsPollDeadline ==
    /\ pc = "rf"
    /\ rctx \in {"all", "temps"}
    /\ man_since
    /\ poll_start = now
    /\ poll_start > next_cycle
    /\ wr \in {CMD_ALL, CMD_TEMPS}

RECURSIVE Feed(_, _, _)
\* update_tempstats called once for each reading of vals, one tick apart
Feed(st, vals, t) ==
    IF vals = <<>> THEN st
    ELSE Feed(update_tempstats(st, Head(vals), HoldTicks, t), Tail(vals), t + 1)

\* C29: an update of a channel whose window is full drops exactly the oldest
\* reading, takes it off the running sum and puts the new reading at the
\* end; an update of a window that is not full only adds the new reading.
\* With capacity 3 the readings 10, 12, 11 give mean 11 and deviation 0, and
\* 20 next gives the window 12, 11, 20, mean 43/3 and deviation 20 - 43/3.
EvictsOldest ==
    /\ [][ \A k \in StatKeys :
             (sop'.kind = "update" /\ k \in sop'.keys) =>
               LET w == stats[k].window
                   w2 == stats'[k].window
                   v == w2[Len(w2)]
               IN  IF Len(w) = StatN
                   THEN /\ w2 = Tail(w) \o <<v>>
                        /\ stats'[k].sum_ = stats[k].sum_ - Head(w) + v
                   ELSE /\ w2 = w \o <<v>>
                        /\ stats'[k].sum_ = stats[k].sum_ + v ]_vars
    /\ [] LET s3 == Feed(TempStatsOf(3), <<10, 12, 11>>, 1)
              s4 == Feed(TempStatsOf(3), <<10, 12, 11, 20>>, 1)
          IN  /\ s3.window = <<10, 12, 11>>
              /\ s3.mean = 11 * Scale
              /\ s3.dev = 0
              /\ s4.window = <<12, 11, 20>>
              /\ s4.sum_ = 43
              /\ 3 * s4.mean = 43 * Scale
              /\ s4.dev = 20 * Scale - s4.mean
\* a full window 0, 3 has taken a 3: the 0 is gone and the sum went 3 -> 6
WitnessEvictsOldest ==
    /\ sop.kind = "update"
    /\ "SHG" \in sop.keys
    /\ nupd = StatN + 1
    /\ stats["SHG"].window = [i \in 1..StatN |-> 3]
    /\ stats["SHG"].sum_ = 3 * StatN
    /\ stats["SHG"].latched_pos > 0

\* C30: an update of a channel whose deviation is above bar_peak_pos sets
\* bar_peak_pos to that deviation and t_bar_pos to now, with no decay in the
\* same update; an update no later than the hold after t_bar_pos whose
\* deviation is not above bar_peak_pos leaves bar_peak_pos and t_bar_pos as
\* they were.  The same holds for bar_peak_neg and deviations below it.
BarPeakSnapsAndHolds ==
    [][ \A k \in StatKeys :
          (sop'.kind = "update" /\ k \in sop'.keys) =>
            LET dev == stats'[k].dev IN
            /\ dev > stats[k].bar_peak_pos =>
                 /\ stats'[k].bar_peak_pos = dev
                 /\ stats'[k].t_bar_pos = mono'
            /\ ( /\ ~(dev > stats[k].bar_peak_pos)
                 /\ mono' - stats[k].t_bar_pos <= HoldTicks ) =>
                 /\ stats'[k].bar_peak_pos = stats[k].bar_peak_pos
                 /\ stats'[k].t_bar_pos = stats[k].t_bar_pos
            /\ dev < stats[k].bar_peak_neg =>
                 /\ stats'[k].bar_peak_neg = dev
                 /\ stats'[k].t_bar_neg = mono'
            /\ ( /\ ~(dev < stats[k].bar_peak_neg)
                 /\ mono' - stats[k].t_bar_neg <= HoldTicks ) =>
                 /\ stats'[k].bar_peak_neg = stats[k].bar_peak_neg
                 /\ stats'[k].t_bar_neg = stats[k].t_bar_neg ]_vars
\* a positive bar peak stands, within its hold, above the deviation of the
\* update that came after it
WitnessBarPeakSnapsAndHolds ==
    /\ sop.kind = "update"
    /\ "SHG" \in sop.keys
    /\ stats["SHG"].bar_peak_pos > 0
    /\ stats["SHG"].dev < stats["SHG"].bar_peak_pos
    /\ stats["SHG"].t_bar_pos < mono
    /\ mono - stats["SHG"].t_bar_pos <= HoldTicks

\* ------------------------------------------------------------ SpecReconnect
\* The monitor over two sessions of the same SerialWorker object: Connect,
\* Disconnect, Connect again.  What a run leaves behind in the object
\* (self._stop, self._manual_q) is what the next run starts with.
MaxReconnects == 2
MaxReconnectTime == 2

InitReconnect ==
    /\ InitWith([time |-> MaxReconnectTime, sessions |-> MaxReconnects,
                 manual |-> 1])
    /\ InitStats
    /\ InitHistory
    /\ InitScpi

SpecReconnect == InitReconnect /\ [][Next]_vars

\* the handshake read returns to run() without having raised
HandshakeReadEnds ==
    /\ pc = "rf"
    /\ rctx = "hs"
    /\ pc' = "loop_init"
    /\ ioFailed' = ioFailed

\* an OK line of the device's reply lies unread in the port
OkPending(q) == \E i \in 1..Len(q) : IsOK(q[i])

\* the read ended on a timeout: one readline() returned nothing after
\* SERIAL_POLL_TIMEOUT, or the overall deadline had passed
HandshakeTimedOut == now' = now + SERIAL_POLL_TIMEOUT \/ now >= deadline

\* C31: in every R+D session in which Disconnect was not clicked, the
\* handshake read ends with a terminator line or with a timeout (one
\* readline timeout or the overall deadline), and it emits the Warning only
\* after a timeout or when the device's reply held no OK line.
HandshakeWaitsForReply ==
    [][ (HandshakeReadEnds /\ ~stopAsked) =>
           /\ \/ Ev("Term") \in {emitted'[i] : i \in 1..Len(emitted')}
              \/ HandshakeTimedOut
           /\ (Ev("Warn") \in {emitted'[i] : i \in 1..Len(emitted')}
                 => (HandshakeTimedOut \/ ~OkPending(rx))) ]_vars

\* C32: a terminal command is written only during the run in which it was
\* put into the queue, and when the loop of a run starts the queue holds no
\* entry of an earlier run.
ManualStaysInSession ==
    /\ [](pc = "loop_init" =>
            \A i \in 1..Len(q_sess) : q_sess[i] = sessions)
    /\ [][ wr'.c = "MAN" => (q_sess # <<>> /\ Head(q_sess) = sessions) ]_vars

\* the read in progress takes from the port a line that answers an earlier
\* command than the one it reads for
ReadsOldLine == pc \in ReadingPcs /\ rx_old > 0 /\ rx' = Tail(rx)

\* C33: a line that answers an earlier command is never used by the read of a
\* later command: not as its frame, not as its terminator.
RepliesAttributed ==
    [][ ReadsOldLine =>
          /\ ~IsTerminator(Head(rx))
          /\ (pc = "rf" => ~IsMatch(Head(rx), rf.expected)) ]_vars

\* C34: in a session whose port opens, Connected is emitted once, by the
\* step that opens the port, and nothing is emitted before it; Warning,
\* Data, TerminalLine and Error are emitted only while the port is open;
\* Disconnected is emitted once, by the step that closes the port, and the
\* run ends with it, whether the loop ended by a stop or by a fatal error.
SessionEventOrder ==
    [][ /\ ("Connected" \in Kinds(emitted')
              <=> (pc = "open" /\ ser = "closed" /\ ser' = "open"))
        /\ ("Disconnected" \in Kinds(emitted')
              <=> (ser = "open" /\ ser' = "closed"))
        /\ (Kinds(emitted') \cap {"Connected", "Disconnected"} # {}
              => Len(emitted') = 1)
        /\ (Kinds(emitted') \cap {"Warn", "Data", "Term", "Error"} # {}
              => \/ ser = "open" /\ ser' = "open"
                 \/ pc = "open" /\ pc' = "idle" /\ ser' = "closed")
        /\ (ser = "closed" /\ pc # "open" => emitted' = <<>>)
        /\ (pc' = "open" => pc \in {"idle", "open"})
        /\ (pc # "idle" /\ pc' = "idle" =>
              /\ ser' = "closed"
              /\ (ser = "open" => emitted' = <<Ev("Disconnected")>>)) ]_vars
\* the second session of the worker ended by a fatal error in a poll cycle
\* and has emitted Disconnected
WitnessSessionEventOrder ==
    /\ sessions = 2
    /\ pc = "idle"
    /\ errorCount = 1
    /\ ioFailed = "poll"
    /\ ser = "closed"
    /\ emitted = <<Ev("Disconnected")>>

\* ------------------------------------------------------------ SpecRun
\* Two runs of the worker, with start() also called on a worker that has no
\* port name.
NextRun ==
    \/ \E m \in Modes, iv \in Intervals : Start(m, iv)
    \/ RunNoPort
    \/ Stop
    \/ Enqueue
    \/ Open
    \/ HsSend
    \/ LoopInit
    \/ LoopExit
    \/ ServeManual
    \/ Sleep
    \/ PollStart
    \/ SendOthers
    \/ RfReturn
    \/ RfRead
    \/ RfFail
    \/ ManFirst
    \/ ManMore
    \/ Exit

SpecRun == InitReconnect /\ [][NextRun]_vars

\* C35: whenever run() has returned the port is closed and the worker holds
\* no handle, whichever way the run ended.
ClosedAfterRun == pc = "idle" => ser = "closed"
\* a run without port name has returned, after an earlier run of the same
\* worker during which Disconnect was clicked
WitnessClosedAfterRun ==
    /\ pc = "idle"
    /\ sessions = 2
    /\ ioFailed = "noport"
    /\ stop
    /\ ser = "closed"

\* ------------------------------------------------------------ SpecFrameX
\* _read_data_and_ok(expected_fields) of matrix_nx_rs232_guiXall.py called
\* on a quiet port while the device sends the lines of script.
InitFrameX == InitFrameAt("rfx")

NextFrameX ==
    \/ XRead
    \/ XReturn
    \/ Stop

SpecFrameX == InitFrameX /\ [][NextFrameX]_vars

\* the last terminator among the lines the call has read (0: none)
LastTerm ==
    LET T == {i \in 1..used : IsTerminator(script[i])} IN
    IF T = {} THEN 0 ELSE CHOOSE i \in T : \A k \in T : k <= i

\* C36: the ok a frame read returns is that of the last terminator line it
\* read: ok is true exactly when that line is OK, wherever the frame stands.
OkIsLastTerminator ==
    pc = "fn_done" =>
        (res.ok <=> (LastTerm > 0 /\ IsOK(script[LastTerm])))

\* C37: after any updates and resets every channel has
\* latched_pos >= 0 >= latched_neg and bar_peak_pos >= 0 >= bar_peak_neg,
\* and a channel that was just updated has bar_peak_pos >= max(dev, 0) and
\* bar_peak_neg <= min(dev, 0).
PeaksEncloseZero ==
    \A k \in StatKeys :
        /\ stats[k].latched_pos >= 0
        /\ stats[k].latched_neg <= 0
        /\ stats[k].bar_peak_pos >= 0
        /\ stats[k].bar_peak_neg <= 0
        /\ (sop.kind = "update" /\ k \in sop.keys =>
              /\ stats[k].bar_peak_pos >= Max(stats[k].dev, 0)
              /\ stats[k].bar_peak_neg <= Min(stats[k].dev, 0))
\* a channel updated with a negative deviation after a reset: the positive
\* bar peak of before the reset still stands above latched_pos = 0
WitnessPeaksEncloseZero ==
    /\ sop.kind = "update"
    /\ "SHG" \in sop.keys
    /\ stats["SHG"].dev < 0
    /\ stats["SHG"].latched_pos = 0
    /\ stats["SHG"].latched_neg < 0
    /\ stats["SHG"].bar_peak_pos > 0
    /\ stats["SHG"].bar_peak_neg = stats["SHG"].dev

\* the bar peaks of a channel lie within its latched extrema
BarWithin(st) ==
    st.bar_peak_pos <= st.latched_pos /\ st.bar_peak_neg >= st.latched_neg

\* C38 as stated: in every reachable state, also after a reset of the
\* latched extrema, bar_peak_pos <= latched_pos and
\* bar_peak_neg >= latched_neg.
BarWithinLatched == \A k \in StatKeys : BarWithin(stats[k])

\* C38: the bar peaks lie within the latched extrema when the statistics
\* are created, and every step other than reset_maxima keeps them there: in
\* a session without a reset of the latched extrema
\* bar_peak_pos <= latched_pos and bar_peak_neg >= latched_neg always hold.
\* After a reset, an update later than the hold after both bar timestamps
\* puts the bar peaks within the latched extrema again.
BarWithinLatchedUntilReset ==
    /\ \A k \in StatKeys : BarWithin(stats[k])
    /\ [][ sop'.kind # "reset" =>
             \A k \in StatKeys :
                 /\ BarWithin(stats[k]) => BarWithin(stats'[k])
                 /\ ( /\ sop'.kind = "update"
                      /\ k \in sop'.keys
                      /\ mono' - stats[k].t_bar_pos > HoldTicks
                      /\ mono' - stats[k].t_bar_neg > HoldTicks )
                    => BarWithin(stats'[k]) ]_vars
\* an update has let the positive bar peak decay to 0 under a latched
\* maximum that stays
WitnessBarWithinLatchedUntilReset ==
    /\ sop.kind = "update"
    /\ "SHG" \in sop.keys
    /\ stats["SHG"].latched_pos > 0
    /\ stats["SHG"].bar_peak_pos = 0
    /\ stats["SHG"].bar_peak_neg < 0
    /\ BarWithin(stats["SHG"])

\* the monitor loop of thread t finds the stop event clear and goes on to
\* its queries
PassesStopCheck(t) == tpc[t] = "check" /\ tpc'[t] = "q1w"

\* C39: a monitor loop started earlier never passes its stop check while a
\* loop started after it exists: once _stop_temp_monitor was called the old
\* loop issues no query after its next check, so at most one loop issues
\* queries.
OneMonitorLoop ==
    [][ \A i \in 1..MaxMon, j \in 1..MaxMon :
          (i < j /\ tpc[Mon(j)] # "none") => ~PassesStopCheck(Mon(i)) ]_vars

\* ------------------------------------------------------------ SpecHistory
\* The terminal's line edit while the worker is connected and left alone:
\* the user types, sends, and walks the history with Up and Down.
InitHistoryRun == Init

SpecHistory == InitHistoryRun /\ [][NextHistory]_vars

\* the history is bounded and has no equal neighbours, and the index is -1
\* or an index into it
HistoryShape ==
    /\ Len(history) <= MaxItems
    /\ \A i \in 1..(Len(history) - 1) : history[i] # history[i + 1]
    /\ idx = -1 \/ idx \in 0..(Len(history) - 1)

\* C40: after any sequence of add_history, Up and Down the history holds at
\* most max_items entries, no two neighbours are equal, the index is -1 or a
\* valid index into the history, and every add_history leaves the index at
\* -1.
HistoryInvariant ==
    /\ []HistoryShape
    /\ [][ hop'.kind = "add" => idx' = -1 ]_vars
\* five commands were sent, none equal to the one before it: the history
\* holds the last three of them and the index is -1 after the last add
WitnessHistoryInvariant ==
    /\ hop = [kind |-> "add", arg |-> 1]
    /\ manual_q = <<3, 1, 2, 3, 1>>
    /\ history = <<2, 3, 1>>
    /\ idx = -1
====
